---- MODULE Spec2Model ----
(***************************************************************************)
(* A model of the Netflix-to-Trakt importer: the duplicate-detection cache *)
(* and the batched synchronisation of TraktIO (src/TraktIO.py).            *)
(***************************************************************************)
EXTENDS Integers, Sequences, FiniteSets, TLC

(***************************************************************************)
(* Bounds of the model.                                                    *)
(***************************************************************************)
\* the plays queued in the two pending lists together
MaxPending == 3
\* the configured page sizes: 1 .. MaxPageSize
MaxPageSize == 2

(***************************************************************************)
(* Program constants.                                                      *)
(***************************************************************************)
MAX_RETRY_ATTEMPTS == 5
max_auth_failures == 3

\* Python's None where an integer may stand (identifiers and numbers are >= 1)
None == 0
NoSubmit == [kind |-> "none", batch |-> 0, attempt |-> 0]
Kinds == {"movies", "episodes"}

VARIABLES
    \* ---- TraktIO fields
    dry_run, page_size,
    auth_initialized,                  \* __init__ has run _initialize_auth
    movies, episodes,                  \* _movies, _episodes: the pending lists
    failed_movies, failed_episodes,    \* _failed_movies, _failed_episodes
    consecutive_auth_failures, consecutive_rate_limits,
    watched_episodes,                  \* _watched_episodes: alias keys
    fed_episodes,                      \* (show, season, episode) whose keys were added since the last clear
    watched_episode_tmdb_ids,          \* _watched_episode_tmdb_ids
    watched_movies,                    \* _watched_movies
    tmdb_history_hydrated,             \* _tmdb_history_hydrated
    \* ---- the position of cacheWatchedHistory() and of the backfills
    total_watched_episodes,            \* the local of cacheWatchedHistory
    snap_count,                        \* snapshot entries read by this build
    page, per_page, ret,               \* the backfill's page and per_page, and who called it
    build_failed,                      \* the build's try block raised
    \* ---- what the environment observed of the cache operations
    calls,          \* top-level cacheWatchedHistory / hydrate_* calls so far
    ep_skipped,     \* a hydrate_tmdb_ids_from_history call returned at its flag check
    ep_site,        \* where this build last called hydrate_tmdb_ids_from_history from
    ep_backfills,   \* ... of which requested a page of the episode history
    ep_outcome,     \* how the last paging episode backfill ended
    mv_backfills,   \* hydrate_movie_ids_from_history invocations that paged
    last_request,   \* what came back when the step just taken asked for a page of history
    last_op,        \* the most recent top-level operation and its arguments
    \* ---- the position of sync() and of the functions it calls
    pc, kind, i, attempt, added_total, batch_outcome, result,
    min_delay,      \* of the running _enforce_rate_limit call, in half seconds
    last_error,     \* whether the latest attempt of the batch raised, and a rate limit
    \* ---- what the environment observed of sync()
    last_submit,    \* the most recent call of Trakt["sync/history"].add
    episode_submitted, \* an episode batch was submitted at least once
    responded,      \* batches whose submission returned a response
    exhausted,      \* batches whose every allowed attempt raised
    formed,         \* the batches each phase sliced, in order
    events,         \* delays, rate-limit steps and first submissions, in order
    \* ---- a call of _generate_episode_keys and what it returned
    key_args, key_result,
    \* ---- NetflixTvHistory fields
    shows,                             \* Shows, each with its Seasons and their Episodes
    history_movies,                    \* NetflixTvHistory.movies
    known_show_names, ambiguous_entries, classification_stats,
    \* ---- what the environment observed of the history
    entries_added,  \* addEntry calls so far
    last_entry,     \* the most recent call on the history and its arguments
    \* ---- the globals of netflix2trakt that processShow reads and counts in
    start_episode_snapshot, start_episode_tmdb_snapshot,
    queued_unique_episode_markers,
    total_processed_episodes, total_episodes_added,
    total_episodes_skipped_watched, total_episodes_skipped_no_tmdb,
    skipped_preexisting_snapshot, skipped_within_run_duplicates,
    \* ---- what the environment observed of processShow
    queued_log,     \* the history episodes queued in this run, as they were resolved
    last_processed, \* the history episode processed last, and how it was resolved
    \* ---- the device authentication: TraktIO fields and the two threads
    is_authenticating,  \* the Condition: who holds its lock, and who waits on it
    authorization,      \* self.authorization
    auth_file,          \* traktAuth.json exists
    caller_pc,          \* where the thread that called authenticate() is
    poller_pc,          \* where the poller thread is
    auth_event,         \* the completion event the poller delivered
    polls,              \* on_poll callbacks so far
    event_before_wait   \* the completion event came before the caller waited

fieldVars == <<dry_run, auth_initialized, page_size, movies, episodes, failed_movies, failed_episodes,
               consecutive_auth_failures, consecutive_rate_limits>>
cacheProc == <<total_watched_episodes, snap_count, page, per_page, ret, build_failed,
               calls, ep_skipped, ep_site, ep_backfills, ep_outcome, mv_backfills,
               last_request, last_op>>
cacheVars == <<watched_episodes, fed_episodes, watched_episode_tmdb_ids, watched_movies,
               tmdb_history_hydrated, cacheProc>>
retryVars == <<min_delay, last_error>>
syncLocals == <<kind, i, attempt, added_total, batch_outcome, result, retryVars>>
syncVars == <<pc, syncLocals>>
obsVars == <<last_submit, episode_submitted, responded, exhausted, formed, events>>
keyVars == <<key_args, key_result>>
histVars == <<shows, history_movies, known_show_names, ambiguous_entries,
              classification_stats, entries_added, last_entry>>
procVars == <<start_episode_snapshot, start_episode_tmdb_snapshot,
              queued_unique_episode_markers, total_processed_episodes, total_episodes_added,
              total_episodes_skipped_watched, total_episodes_skipped_no_tmdb,
              skipped_preexisting_snapshot, skipped_within_run_duplicates,
              queued_log, last_processed>>
authVars == <<is_authenticating, authorization, auth_file, caller_pc, poller_pc,
              auth_event, polls, event_before_wait>>
auxVars == <<keyVars, histVars, procVars, authVars>>
vars == <<fieldVars, cacheVars, syncVars, obsVars, auxVars>>

(***************************************************************************)
(* Helpers.                                                                *)
(***************************************************************************)
Min(a, b) == IF a < b THEN a ELSE b
Max(a, b) == IF a > b THEN a ELSE b

RECURSIVE Flatten(_)
Flatten(ss) == IF ss = <<>> THEN <<>> ELSE Head(ss) \o Flatten(Tail(ss))

Range(s) == {s[x] : x \in DOMAIN s}

\* A queued play: the dict {"watched_at": ..., "ids": {"tmdb": ...}}.
Play(tmdb, at) == [tmdb |-> tmdb, watched_at |-> at]

Pending(k) == IF k = "movies" THEN movies ELSE episodes
Failed(k) == IF k = "movies" THEN failed_movies ELSE failed_episodes

\* Python's lst[i : i + page_size], i counted from 0.
Slice_OneShort(lst, from, size) == SubSeq(lst, from + 1, Min(from + size - 1, Len(lst)))
Slice(lst, from, size) == SubSeq(lst, from + 1, Min(from + size, Len(lst)))

\* batch_num = i // self.page_size + 1
BatchNum(from, size) == (from \div size) + 1

\* total_batches = ((total - 1) // page_size + 1) if total > 0 else 0
TotalBatches(total, size) == IF total > 0 THEN ((total - 1) \div size) + 1 ELSE 0

\* range(0, total, page_size): the next start index after `from`.
NextIndex_Stays(from, size) == from
NextIndex(from, size) == from + size

\* self._failed_movies.extend(batch) / self._failed_episodes.extend(batch)
ExtendFailed_DropsLast(lst, batch) == lst \o SubSeq(batch, 1, Len(batch) - 1)
ExtendFailed(lst, batch) == lst \o batch

\* result["failed"][kind] += len(batch)
FailedCount_PerBatch(n, batch) == n + 1
FailedCount(n, batch) == n + Len(batch)

\* if self._movies and self._episodes: time.sleep(batch_delay)
PhaseDelayDue_Never(m, e) == FALSE
PhaseDelayDue(m, e) == m # <<>> /\ e # <<>>

\* self._enforce_rate_limit(batch_delay), called at the head of every loop body
enforce_rate_limit_FirstOnly(evs, k, b) ==
    IF b = 1 THEN Append(evs, <<"rate_limit", k, b>>) ELSE evs
enforce_rate_limit(evs, k, b) == Append(evs, <<"rate_limit", k, b>>)

\* The delays of the configuration, in seconds: TRAKT_API_BATCH_DELAY (by
\* default the initial delay, 3.0) and a TRAKT_API_RATE_LIMIT_DELAY of 1.0.
batch_delay == 3
rate_limit_delay == 1

\* min_delay of _enforce_rate_limit(delay) after n consecutive rate limits,
\* in half seconds: max(min_delay, self.rate_limit_delay * (1 + n * 0.5))
extended_delay_RateOnly(delay, n) == rate_limit_delay * (2 + n)

extended_delay(delay, n) ==
    IF n > 0 THEN Max(2 * delay, rate_limit_delay * (2 + n)) ELSE 2 * delay

(***************************************************************************)
(* The failure classes of _sync_batch_with_retry.  An exception is known   *)
(* by what its text contains.                                              *)
(***************************************************************************)
Errors == [auth : BOOLEAN, rate : BOOLEAN, server : BOOLEAN]

\* No attempt of the batch has raised.
NoError == [raised |-> FALSE, rate |-> FALSE]
\* The attempt has raised e: whether e is of the rate-limit class is kept.
Raises(e) == [raised |-> TRUE, rate |-> e.rate]

\* raise Exception("No response from Trakt API") on a None response
NoResponseError == [auth |-> TRUE, rate |-> FALSE, server |-> FALSE]

\* "no response" / "unable to refresh expired token" / "token refreshing hasn't been enabled"
IsAuthFailure(e) == e.auth
\* "429" in str(e) or "rate" in error_str
IsRateLimit(e) == e.rate
\* "500"/"502"/"503" in str(e) or "server" in error_str
IsServerError(e) == e.server

\* if self._consecutive_auth_failures >= self._max_auth_failures: raise
FatalAuth(count) == count >= max_auth_failures

StopAfterAttempt_OneLate(n) == n > MAX_RETRY_ATTEMPTS

\* tenacity stop_after_attempt(MAX_RETRY_ATTEMPTS): no attempt follows attempt n
StopAfterAttempt(n) == n >= MAX_RETRY_ATTEMPTS

\* What _sync_batch_with_retry hands to its caller: a response of the remote
\* (truthy, reporting `added` items, or empty), or the exception it raised.
NoOutcome == [status |-> "none", added |-> 0]
Raised == [status |-> "raised", added |-> 0]
Responses(n) == [status : {"response"}, added : 0 .. n]
                  \cup {[status |-> "empty", added |-> 0]}
\* if response:
Truthy(r) == r.status = "response"

ZeroResult == [added |-> [movies |-> 0, episodes |-> 0],
               failed |-> [movies |-> 0, episodes |-> 0]]

(***************************************************************************)
(* sync()                                                                  *)
(***************************************************************************)
\* __init__: if not self.dry_run: ...; self._initialize_auth(), which
\* authenticates, fetches the watched shows and builds the cache
initialize_auth(dry) == ~dry

\* if self.dry_run: return {...}
sync_dry_run ==
    /\ pc = "idle"
    /\ dry_run
    /\ result' = [added |-> [movies |-> Len(movies), episodes |-> Len(episodes)],
                  failed |-> [movies |-> 0, episodes |-> 0]]
    /\ pc' = "returned"
    /\ UNCHANGED <<fieldVars, cacheVars, auxVars, retryVars, kind, i, attempt, added_total, batch_outcome, obsVars>>

\* result = {...}; time.sleep(self.initial_batch_delay); if self._movies: ...
sync_begin_InDryRun ==
    /\ pc = "idle"
    /\ result' = ZeroResult
    /\ events' = Append(events, <<"initial_delay">>)
    /\ IF movies # <<>>
       THEN /\ pc' = "loop"
            /\ kind' = "movies"
            /\ i' = 0
            /\ added_total' = 0
       ELSE /\ pc' = "between"
            /\ UNCHANGED <<kind, i, added_total>>
    /\ UNCHANGED <<fieldVars, cacheVars, auxVars, retryVars, attempt, batch_outcome,
                   last_submit, episode_submitted, responded, exhausted, formed>>

sync_begin ==
    /\ pc = "idle"
    /\ ~dry_run
    /\ result' = ZeroResult
    /\ events' = Append(events, <<"initial_delay">>)
    /\ IF movies # <<>>
       THEN /\ pc' = "loop"
            /\ kind' = "movies"
            /\ i' = 0
            /\ added_total' = 0
       ELSE /\ pc' = "between"
            /\ UNCHANGED <<kind, i, added_total>>
    /\ UNCHANGED <<fieldVars, cacheVars, auxVars, retryVars, attempt, batch_outcome,
                   last_submit, episode_submitted, responded, exhausted, formed>>

\* for i in range(0, total, self.page_size): batch = ...; self._enforce_rate_limit(batch_delay)
BatchStart ==
    /\ pc = "loop"
    /\ i < Len(Pending(kind))
    /\ formed' = [formed EXCEPT ![kind] = Append(@, Slice(Pending(kind), i, page_size))]
    /\ events' = enforce_rate_limit(events, kind, BatchNum(i, page_size))
    /\ attempt' = 1
    /\ min_delay' = extended_delay(batch_delay, consecutive_rate_limits)
    /\ UNCHANGED last_error
    /\ pc' = "attempt"
    /\ UNCHANGED <<fieldVars, cacheVars, auxVars, kind, i, added_total, batch_outcome, result,
                   last_submit, episode_submitted, responded, exhausted>>

\* What every call of Trakt["sync/history"].add(data) leaves behind.
Submit ==
    /\ last_submit' = [kind |-> kind, batch |-> BatchNum(i, page_size), attempt |-> attempt]
    /\ episode_submitted' = (episode_submitted \/ kind = "episodes")
    /\ events' = IF attempt = 1
                 THEN Append(events, <<"batch", kind, BatchNum(i, page_size)>>)
                 ELSE events

\* _sync_batch_with_retry: response = Trakt["sync/history"].add(data); return response
\* The response is truthy and reports `added` items, or is empty (falsy, not None).
AttemptReturns ==
    /\ pc = "attempt"
    /\ Submit
    /\ \E r \in Responses(Len(Slice(Pending(kind), i, page_size))) :
          batch_outcome' = r
    /\ responded' = responded \cup {<<kind, BatchNum(i, page_size)>>}
    /\ pc' = "batch_result"
    /\ min_delay' = 0
    /\ last_error' = NoError
    /\ UNCHANGED <<fieldVars, cacheVars, auxVars, kind, i, attempt, added_total, result,
                   exhausted, formed>>

\* _sync_batch_with_retry: the except branch, then tenacity's decision.
\* A None response raises the "no response" error inside the try.
AttemptRaises ==
    /\ pc = "attempt"
    /\ Submit
    /\ \E e \in Errors :
         LET auth == IsAuthFailure(e)
             ca == IF auth THEN consecutive_auth_failures + 1
                           ELSE consecutive_auth_failures
             fatal == auth /\ FatalAuth(ca)
             ratelimited == ~fatal /\ IsRateLimit(e)
         IN /\ consecutive_auth_failures' = ca
            /\ last_error' = Raises(e)
            /\ consecutive_rate_limits' =
                  IF ratelimited THEN consecutive_rate_limits + 1
                                 ELSE consecutive_rate_limits
    /\ min_delay' = 0
    /\ IF StopAfterAttempt(attempt)
       THEN /\ pc' = "batch_result"
            /\ batch_outcome' = Raised
            /\ exhausted' = exhausted \cup {<<kind, BatchNum(i, page_size)>>}
            /\ UNCHANGED attempt
       ELSE /\ attempt' = attempt + 1
            /\ UNCHANGED <<pc, batch_outcome, exhausted>>
    /\ UNCHANGED <<dry_run, auth_initialized, page_size, movies, episodes, failed_movies, failed_episodes,
                   cacheVars, auxVars, kind, i, added_total, result, responded, formed>>

\* The rest of the loop body of _sync_movies_in_batches.
MoviesBatchResult ==
    /\ pc = "batch_result"
    /\ kind = "movies"
    /\ LET batch == Slice(movies, i, page_size)
       IN IF Truthy(batch_outcome)
          THEN /\ added_total' = added_total + batch_outcome.added
               /\ consecutive_rate_limits' = 0
               /\ UNCHANGED <<result, failed_movies>>
          ELSE /\ result' = [result EXCEPT !.failed.movies = FailedCount(@, batch)]
               /\ failed_movies' = ExtendFailed(failed_movies, batch)
               /\ UNCHANGED <<added_total, consecutive_rate_limits>>
    /\ i' = NextIndex(i, page_size)
    /\ pc' = "loop"
    /\ batch_outcome' = NoOutcome
    /\ last_error' = NoError
    /\ UNCHANGED min_delay
    /\ UNCHANGED <<dry_run, auth_initialized, page_size, movies, episodes, failed_episodes,
                   consecutive_auth_failures, cacheVars, auxVars, kind, attempt, obsVars>>

\* The rest of the loop body of _sync_episodes_in_batches.
\* _update_episode_cache_after_sync(batch, added): logs, and leaves the cache
\* as addEpisodeToHistory filled it
update_episode_cache_after_sync_Recaches(keys, episode_batch, successfully_added_count) ==
    keys \cup {episode_batch[x].tmdb :
                  x \in 1 .. Min(successfully_added_count, Len(episode_batch))}
update_episode_cache_after_sync(keys, episode_batch, successfully_added_count) == keys

EpisodesBatchResult ==
    /\ pc = "batch_result"
    /\ kind = "episodes"
    /\ LET batch == Slice(episodes, i, page_size)
       IN IF Truthy(batch_outcome)
          THEN /\ added_total' = added_total + batch_outcome.added
               /\ consecutive_rate_limits' = 0
               /\ consecutive_auth_failures' = 0
               /\ watched_episodes' =
                     IF batch_outcome.added > 0
                     THEN update_episode_cache_after_sync(
                              watched_episodes, batch, batch_outcome.added)
                     ELSE watched_episodes
               /\ UNCHANGED <<result, failed_episodes>>
          ELSE /\ result' = [result EXCEPT !.failed.episodes = FailedCount(@, batch)]
               /\ failed_episodes' = ExtendFailed(failed_episodes, batch)
               /\ UNCHANGED <<added_total, consecutive_rate_limits,
                              consecutive_auth_failures, watched_episodes>>
    /\ i' = NextIndex(i, page_size)
    /\ pc' = "loop"
    /\ batch_outcome' = NoOutcome
    /\ last_error' = NoError
    /\ UNCHANGED min_delay
    /\ UNCHANGED <<dry_run, auth_initialized, page_size, movies, episodes, failed_movies,
                   fed_episodes, watched_episode_tmdb_ids, watched_movies,
                   tmdb_history_hydrated, cacheProc, auxVars, kind, attempt, obsVars>>

\* return added_total; result["added"][kind] += ...
PhaseReturn ==
    /\ pc = "loop"
    /\ i >= Len(Pending(kind))
    /\ result' = [result EXCEPT !.added[kind] = @ + added_total]
    /\ pc' = IF kind = "movies" THEN "between" ELSE "report"
    /\ UNCHANGED <<fieldVars, cacheVars, auxVars, retryVars, kind, i, attempt, added_total, batch_outcome, obsVars>>

\* if self._movies and self._episodes: time.sleep(batch_delay); if self._episodes: ...
sync_between ==
    /\ pc = "between"
    /\ events' = IF PhaseDelayDue(movies, episodes)
                 THEN Append(events, <<"phase_delay">>)
                 ELSE events
    /\ IF episodes # <<>>
       THEN /\ pc' = "loop"
            /\ kind' = "episodes"
            /\ i' = 0
            /\ added_total' = 0
       ELSE /\ pc' = "report"
            /\ UNCHANGED <<kind, i, added_total>>
    /\ UNCHANGED <<fieldVars, cacheVars, auxVars, retryVars, attempt, batch_outcome, result,
                   last_submit, episode_submitted, responded, exhausted, formed>>

\* the logging of the results; return result
sync_return ==
    /\ pc = "report"
    /\ pc' = "returned"
    /\ UNCHANGED <<fieldVars, cacheVars, auxVars, retryVars, kind, i, attempt, added_total, batch_outcome,
                   result, obsVars>>

(***************************************************************************)
(* Catalog identifiers as they stand in a payload: an int, a string (of    *)
(* digits when v >= 1, of something else when v = 0) or None.              *)
(***************************************************************************)
IntId(n) == [t |-> "int", v |-> n]
StrId(n) == [t |-> "str", v |-> n]
NoId == [t |-> "none", v |-> None]

\* The step asked no history endpoint for a page.
NoRequest == [got |-> "none", len |-> 0]

\* The latest call made on the instance from outside.
NoOp == [op |-> "none", show |-> <<>>, season |-> None, episode |-> None, tmdb |-> NoId]

\* No call of _generate_episode_keys was observed.
NoArgs == [title |-> <<>>, season |-> None, episode |-> None]
KeysIdle ==
    /\ key_args = NoArgs
    /\ key_result = {}

\* A NetflixTvHistory as its constructor leaves it, before any call.
NoEntry == [op |-> "none", title |-> <<>>, date |-> ""]
NoStats == [episodes_certain |-> 0, episodes_inferred |-> 0,
            movies_certain |-> 0, ambiguous_resolved |-> 0]
HistoryIdle ==
    /\ shows = <<>>
    /\ history_movies = <<>>
    /\ known_show_names = {}
    /\ ambiguous_entries = <<>>
    /\ classification_stats = NoStats
    /\ entries_added = 0
    /\ last_entry = NoEntry

\* No history episode was processed.
NoProcessed == [show |-> <<>>, season |-> None, episode |-> None, tmdb |-> NoId,
                plays |-> 0, matched |-> FALSE]

\* The globals of netflix2trakt as the module sets them, lines 30-47.
ProcessIdle ==
    /\ start_episode_snapshot = {}
    /\ start_episode_tmdb_snapshot = {}
    /\ queued_unique_episode_markers = {}
    /\ total_processed_episodes = 0
    /\ total_episodes_added = 0
    /\ total_episodes_skipped_watched = 0
    /\ total_episodes_skipped_no_tmdb = 0
    /\ skipped_preexisting_snapshot = 0
    /\ skipped_within_run_duplicates = 0
    /\ queued_log = {}
    /\ last_processed = NoProcessed

\* Condition(): nobody holds the lock, nobody waits.
Condition == [owner |-> "none", waiters |-> {}]

\* No authentication was started.
AuthIdle ==
    /\ is_authenticating = Condition
    /\ authorization = "none"
    /\ auth_file = FALSE
    /\ caller_pc = "idle"
    /\ poller_pc = "unstarted"
    /\ auth_event = "none"
    /\ polls = 0
    /\ event_before_wait = FALSE

AuxIdle == KeysIdle /\ HistoryIdle /\ ProcessIdle /\ AuthIdle

\* per_page of the backfills when the caller gives none, scaled down
PerPage == 1

\* No cache operation is running or has run.
CacheProcIdle ==
    /\ total_watched_episodes = 0
    /\ snap_count = 0
    /\ page = 0
    /\ per_page = PerPage
    /\ ret = "ready"
    /\ build_failed = FALSE
    /\ calls = 0
    /\ ep_skipped = FALSE
    /\ ep_site = "none"
    /\ ep_backfills = 0
    /\ ep_outcome = "none"
    /\ mv_backfills = 0
    /\ last_request = NoRequest
    /\ last_op = NoOp

(***************************************************************************)
(* The sync engine: an instance whose pending lists were queued, on which  *)
(* sync() is called once.                                                  *)
(***************************************************************************)
InitSync ==
    /\ dry_run \in BOOLEAN
    /\ auth_initialized = initialize_auth(dry_run)
    /\ page_size \in 1 .. MaxPageSize
    /\ \E nm \in 0 .. MaxPending :
          \E ne \in 0 .. (MaxPending - nm) :
             /\ movies = [x \in 1 .. nm |-> Play(x, x)]
             /\ episodes = [x \in 1 .. ne |-> Play(x, x)]
    /\ failed_movies = <<>>
    /\ failed_episodes = <<>>
    /\ consecutive_auth_failures = 0
    /\ consecutive_rate_limits = 0
    /\ watched_episodes = {}
    /\ fed_episodes = {}
    /\ watched_episode_tmdb_ids = {episodes[x].tmdb : x \in DOMAIN episodes}
    /\ watched_movies = {movies[x].tmdb : x \in DOMAIN movies}
    /\ tmdb_history_hydrated = FALSE
    /\ CacheProcIdle
    /\ AuxIdle
    /\ pc = "idle"
    /\ kind = "movies"
    /\ i = 0
    /\ attempt = 0
    /\ added_total = 0
    /\ batch_outcome = NoOutcome
    /\ min_delay = 0
    /\ last_error = NoError
    /\ result = ZeroResult
    /\ last_submit = NoSubmit
    /\ episode_submitted = FALSE
    /\ responded = {}
    /\ exhausted = {}
    /\ formed = [movies |-> <<>>, episodes |-> <<>>]
    /\ events = <<>>

NextSync ==
    \/ sync_dry_run
    \/ sync_begin
    \/ BatchStart
    \/ AttemptReturns
    \/ AttemptRaises
    \/ MoviesBatchResult
    \/ EpisodesBatchResult
    \/ PhaseReturn
    \/ sync_between
    \/ sync_return

SpecSync == InitSync /\ [][NextSync]_vars

(***************************************************************************)
(* Titles are sequences of one-character strings.                          *)
(***************************************************************************)
LowerLetters == <<"a", "b", "c", "d", "e", "f", "g", "h", "i", "j", "k", "l", "m",
                  "n", "o", "p", "q", "r", "s", "t", "u", "v", "w", "x", "y", "z">>
UpperLetters == <<"A", "B", "C", "D", "E", "F", "G", "H", "I", "J", "K", "L", "M",
                  "N", "O", "P", "Q", "R", "S", "T", "U", "V", "W", "X", "Y", "Z">>
Digits == {"0", "1", "2", "3", "4", "5", "6", "7", "8", "9"}

LowerChar(ch) ==
    IF \E k \in DOMAIN UpperLetters : UpperLetters[k] = ch
    THEN LowerLetters[CHOOSE k \in DOMAIN UpperLetters : UpperLetters[k] = ch]
    ELSE ch

\* str.lower()
lower(t) == [j \in DOMAIN t |-> LowerChar(t[j])]

\* the class [a-z0-9]
IsLowerAlnum(ch) == ch \in Range(LowerLetters) \cup Digits
IsSpace(ch) == ch = " "

RECURSIVE lstrip(_)
lstrip(t) == IF t # <<>> /\ IsSpace(Head(t)) THEN lstrip(Tail(t)) ELSE t
RECURSIVE rstrip(_)
rstrip(t) == IF t # <<>> /\ IsSpace(t[Len(t)]) THEN rstrip(SubSeq(t, 1, Len(t) - 1)) ELSE t
\* str.strip()
strip(t) == rstrip(lstrip(t))

\* the substitution cutting at the last colon instead of the first
CutAtColon_AtLast(t) ==
    IF \E j \in DOMAIN t : t[j] = ":"
    THEN LET last == CHOOSE j \in DOMAIN t :
                         t[j] = ":" /\ \A k \in (j + 1) .. Len(t) : t[k] # ":"
         IN SubSeq(t, 1, last - 1)
    ELSE t

\* re.sub(r":.*$", "", base)
CutAtColon(t) ==
    IF \E j \in DOMAIN t : t[j] = ":"
    THEN LET first == CHOOSE j \in DOMAIN t :
                          t[j] = ":" /\ \A k \in 1 .. (j - 1) : t[k] # ":"
         IN SubSeq(t, 1, first - 1)
    ELSE t

RECURSIVE DropNonAlnum(_)
DropNonAlnum(t) ==
    IF t # <<>> /\ ~IsLowerAlnum(Head(t)) THEN DropNonAlnum(Tail(t)) ELSE t
RECURSIVE CollapseNonAlnum(_)
\* re.sub(r"[^a-z0-9]+", " ", base)
CollapseNonAlnum(t) ==
    IF t = <<>> THEN <<>>
    ELSE IF IsLowerAlnum(Head(t))
         THEN <<Head(t)>> \o CollapseNonAlnum(Tail(t))
         ELSE <<" ">> \o CollapseNonAlnum(DropNonAlnum(Tail(t)))

\* _generate_episode_keys(title, season_num, episode_num)
generate_episode_keys(title, season_num, episode_num) ==
    LET base == lower(title)
        alias == strip(CutAtColon(base))
        normalized == strip(CollapseNonAlnum(base))
    IN {<<base, season_num, episode_num>>}
         \cup (IF alias # <<>> /\ alias # base
               THEN {<<alias, season_num, episode_num>>} ELSE {})
         \cup (IF normalized # <<>> /\ normalized \notin {base, alias}
               THEN {<<normalized, season_num, episode_num>>} ELSE {})

\* _parse_tmdb_id(val)
parse_tmdb_id(val) ==
    IF val.t = "int" THEN val.v
    ELSE IF val.t = "str" /\ val.v >= 1 THEN val.v
    ELSE None

\* isMovieWatched(tmdb_id): tmdb_id in self._watched_movies
isMovieWatched(tmdb_id) == tmdb_id.t = "int" /\ tmdb_id.v \in watched_movies

\* isEpisodeWatched without its identifier tier
isEpisodeWatched_AliasOnly(show_name, season_number, episode_number, tmdb_id) ==
    IF episode_number = None THEN FALSE
    ELSE \E key \in generate_episode_keys(show_name, season_number, episode_number) :
            key \in watched_episodes

\* isEpisodeWatched taking an unknown episode number for any episode of the season
isEpisodeWatched_AnyEpisodeWhenUnknown(show_name, season_number, episode_number, tmdb_id) ==
    IF tmdb_id.t = "int" /\ tmdb_id.v \in watched_episode_tmdb_ids THEN TRUE
    ELSE \E key \in watched_episodes :
            /\ key[2] = season_number
            /\ episode_number \in {None, key[3]}
            /\ key \in generate_episode_keys(show_name, key[2], key[3])

\* isEpisodeWatched(show_name, season_number, episode_number, tmdb_id)
isEpisodeWatched(show_name, season_number, episode_number, tmdb_id) ==
    IF tmdb_id.t = "int" /\ tmdb_id.v \in watched_episode_tmdb_ids THEN TRUE
    ELSE IF episode_number = None THEN FALSE
    ELSE \E key \in generate_episode_keys(show_name, season_number, episode_number) :
            key \in watched_episodes

(***************************************************************************)
(* The values the cache operations are tried with.                         *)
(***************************************************************************)
\* plays queued by addMovie / addEpisodeToHistory together
MaxQueued == 1
\* entries of the watched snapshot read by one cacheWatchedHistory
MaxSnapshot == 2
\* pages the remote history endpoints hold
MaxPages == 2
\* top-level calls of cacheWatchedHistory / hydrate_*_from_history
MaxCalls == 2

Titles == {<<"A", ":", "b">>, <<"a">>}
TmdbIds == {1, 2}
Seasons == {1}
EpisodeNumbers == {1}
RawIds == {IntId(1), IntId(2), StrId(1), NoId}

SeqsUpTo(S, n) == UNION {[1 .. k -> S] : k \in 0 .. n}

\* One page of a history endpoint; a full page only while more pages exist.
\* The loops add the identifiers of a page to a set, so that the order of its
\* items is of no account: the items without identifier come first, the others
\* by identifier.
HistoryPages(p, per) ==
    {items \in SeqsUpTo(TmdbIds \cup {None}, IF p < MaxPages THEN per ELSE per - 1) :
        \A j \in 1 .. (Len(items) - 1) : items[j] <= items[j + 1]}

\* One watched episode of the snapshot, as the loops of cacheWatchedHistory see it.
SnapshotEpisodes ==
    [title : Titles, season : Seasons \cup {None},
     episode : EpisodeNumbers \cup {None}, tmdb : TmdbIds \cup {None}]

Op(name) == [NoOp EXCEPT !.op = name]

(***************************************************************************)
(* addMovie, addEpisodeToHistory                                           *)
(***************************************************************************)
\* self._watched_movies.add(tmdb_id), when the parsed identifier is not None
PreCacheMovie(cache, tmdb) == IF tmdb # None THEN cache \cup {tmdb} ELSE cache

\* the alias keys added when show, season and episode are given
PreCacheKeys_Never(cache, show_name, season_number, episode_number) == cache
PreCacheKeys(cache, show_name, season_number, episode_number) ==
    IF show_name # <<>> /\ season_number # None /\ episode_number # None
    THEN cache \cup generate_episode_keys(show_name, season_number, episode_number)
    ELSE cache

addMovie ==
    /\ pc = "ready"
    /\ Len(movies) + Len(episodes) < MaxQueued
    /\ \E raw \in RawIds :
          /\ movies' = Append(movies, Play(raw, Len(movies) + 1))
          /\ watched_movies' = PreCacheMovie(watched_movies, parse_tmdb_id(raw))
          /\ last_op' = [Op("addMovie") EXCEPT !.tmdb = raw]
    /\ last_request' = NoRequest
    /\ UNCHANGED <<dry_run, auth_initialized, page_size, episodes, failed_movies, failed_episodes,
                   consecutive_auth_failures, consecutive_rate_limits,
                   watched_episodes, fed_episodes, watched_episode_tmdb_ids, tmdb_history_hydrated,
                   total_watched_episodes, snap_count, page, per_page, ret, build_failed,
                   calls, ep_skipped, ep_site, ep_backfills, ep_outcome, mv_backfills,
                   syncVars, obsVars, auxVars>>

addEpisodeToHistory ==
    /\ pc = "ready"
    /\ Len(movies) + Len(episodes) < MaxQueued
    /\ \E raw \in RawIds, show_name \in Titles,
          season_number \in Seasons \cup {None},
          episode_number \in EpisodeNumbers \cup {None} :
          /\ episodes' = Append(episodes, Play(raw, Len(episodes) + 1))
          /\ watched_episode_tmdb_ids' =
                IF parse_tmdb_id(raw) # None
                THEN watched_episode_tmdb_ids \cup {parse_tmdb_id(raw)}
                ELSE watched_episode_tmdb_ids
          /\ watched_episodes' =
                PreCacheKeys(watched_episodes, show_name, season_number, episode_number)
          /\ fed_episodes' =
                IF show_name # <<>> /\ season_number # None /\ episode_number # None
                THEN fed_episodes \cup {<<show_name, season_number, episode_number>>}
                ELSE fed_episodes
          /\ last_op' = [op |-> "addEpisodeToHistory", show |-> show_name,
                         season |-> season_number, episode |-> episode_number,
                         tmdb |-> raw]
    /\ last_request' = NoRequest
    /\ UNCHANGED <<dry_run, auth_initialized, page_size, movies, failed_movies, failed_episodes,
                   consecutive_auth_failures, consecutive_rate_limits,
                   watched_movies, tmdb_history_hydrated,
                   total_watched_episodes, snap_count, page, per_page, ret, build_failed,
                   calls, ep_skipped, ep_site, ep_backfills, ep_outcome, mv_backfills,
                   syncVars, obsVars, auxVars>>

(***************************************************************************)
(* hydrate_tmdb_ids_from_history, hydrate_movie_ids_from_history           *)
(***************************************************************************)
\* the finally clause: self._tmdb_history_hydrated = True
HydratedAfter_OnlyOnSuccess(outcome) == outcome # "raised"
HydratedAfter(outcome) == TRUE

\* The call of hydrate_tmdb_ids_from_history, returning to `back`:
\* an immediate return when the flag is set, the paging loop otherwise.
CallHydrateEpisodes(back, site, per) ==
    /\ ep_site' = site
    /\ IF tmdb_history_hydrated
       THEN /\ ep_skipped' = TRUE
            /\ pc' = back
            /\ UNCHANGED <<page, per_page, ret>>
       ELSE /\ pc' = "hydrate_episodes"
            /\ page' = 1
            /\ per_page' = per
            /\ ret' = back
            /\ UNCHANGED ep_skipped

\* The call of hydrate_movie_ids_from_history, returning to `back`.
CallHydrateMovies(back, per) ==
    /\ pc' = "hydrate_movies"
    /\ page' = 1
    /\ per_page' = per
    /\ ret' = back

\* A paging loop ends: control goes back to the caller.
Return ==
    /\ pc' = ret
    /\ page' = 0
    /\ ret' = "ready"
    /\ UNCHANGED per_page

\* The identifiers a page adds to a cache.
PageIds(items) == {x \in Range(items) : x # None}

\* The step asked a history endpoint for a page: the request raised, or
\* returned `items`.
RequestRaised == [got |-> "raised", len |-> 0]
RequestReturned(items) == [got |-> "items", len |-> Len(items)]

\* The loop going on after a page that is short but not empty.
LastPage_OnlyWhenEmpty(items, per) == items = <<>>
\* if not items: break ... if len(items) < per_page: break
LastPage(items, per) == items = <<>> \/ Len(items) < per

\* One request of the episode paging loop and what follows it.
HydrateEpisodesPage ==
    /\ pc = "hydrate_episodes"
    /\ ep_backfills' = IF page = 1 THEN ep_backfills + 1 ELSE ep_backfills
    /\ \/ \* the request raises
          /\ tmdb_history_hydrated' = HydratedAfter("raised")
          /\ ep_outcome' = "raised"
          /\ last_request' = RequestRaised
          /\ Return
          /\ UNCHANGED watched_episode_tmdb_ids
       \/ \E items \in HistoryPages(page, per_page) :
             /\ last_request' = RequestReturned(items)
             /\ watched_episode_tmdb_ids' = watched_episode_tmdb_ids \cup PageIds(items)
             /\ IF LastPage(items, per_page)
                THEN /\ tmdb_history_hydrated' = HydratedAfter("done")
                     /\ ep_outcome' = "done"
                     /\ Return
                ELSE /\ page' = page + 1
                     /\ UNCHANGED <<tmdb_history_hydrated, ep_outcome, pc, per_page, ret>>
    /\ UNCHANGED <<fieldVars, watched_episodes, fed_episodes, watched_movies,
                   total_watched_episodes, snap_count, build_failed,
                   calls, ep_skipped, ep_site, mv_backfills, last_op, syncLocals, obsVars, auxVars>>

\* One request of the movie paging loop and what follows it.
HydrateMoviesPage ==
    /\ pc = "hydrate_movies"
    /\ mv_backfills' = IF page = 1 THEN mv_backfills + 1 ELSE mv_backfills
    /\ \/ \* the request raises
          /\ last_request' = RequestRaised
          /\ Return
          /\ UNCHANGED watched_movies
       \/ \E items \in HistoryPages(page, per_page) :
             /\ last_request' = RequestReturned(items)
             /\ watched_movies' = watched_movies \cup PageIds(items)
             /\ IF LastPage(items, per_page)
                THEN Return
                ELSE page' = page + 1 /\ UNCHANGED <<pc, per_page, ret>>
    /\ UNCHANGED <<fieldVars, watched_episodes, fed_episodes, watched_episode_tmdb_ids,
                   tmdb_history_hydrated, total_watched_episodes, snap_count,
                   build_failed, calls, ep_skipped, ep_site, ep_backfills, ep_outcome,
                   last_op, syncLocals, obsVars, auxVars>>

\* hydrate_tmdb_ids_from_history(per_page=per), called from outside
hydrate_tmdb_ids_from_history_with(per) ==
    /\ pc = "ready"
    /\ calls < MaxCalls
    /\ calls' = calls + 1
    /\ last_op' = Op("hydrate_tmdb_ids_from_history")
    /\ CallHydrateEpisodes("ready", "direct", per)
    /\ last_request' = NoRequest
    /\ UNCHANGED <<fieldVars, watched_episodes, fed_episodes, watched_episode_tmdb_ids, watched_movies,
                   tmdb_history_hydrated, total_watched_episodes, snap_count,
                   build_failed, ep_backfills, ep_outcome, mv_backfills,
                   syncLocals, obsVars, auxVars>>

\* hydrate_movie_ids_from_history(per_page=per), called from outside
hydrate_movie_ids_from_history_with(per) ==
    /\ pc = "ready"
    /\ calls < MaxCalls
    /\ calls' = calls + 1
    /\ last_op' = Op("hydrate_movie_ids_from_history")
    /\ CallHydrateMovies("ready", per)
    /\ last_request' = NoRequest
    /\ UNCHANGED <<fieldVars, watched_episodes, fed_episodes, watched_episode_tmdb_ids, watched_movies,
                   tmdb_history_hydrated, total_watched_episodes, snap_count,
                   build_failed, ep_skipped, ep_site, ep_backfills, ep_outcome, mv_backfills,
                   syncLocals, obsVars, auxVars>>

\* the calls of the program: per_page is left at its default
hydrate_tmdb_ids_from_history == hydrate_tmdb_ids_from_history_with(PerPage)
hydrate_movie_ids_from_history == hydrate_movie_ids_from_history_with(PerPage)

(***************************************************************************)
(* cacheWatchedHistory                                                     *)
(***************************************************************************)
\* coverage < TMDB_COVERAGE_MIN_THRESHOLD, with
\* coverage = len(ids) / max(1, total) and the threshold 0.6 = 6/10
CoverageBelowThreshold_WhenNoIds(ids, total) == Cardinality(ids) = 0
CoverageBelowThreshold(ids, total) == 10 * Cardinality(ids) < 6 * Max(1, total)

\* The snapshot is fetched and the two caches are cleared.
cacheWatchedHistory ==
    /\ pc = "ready"
    /\ calls < MaxCalls
    /\ calls' = calls + 1
    /\ last_op' = Op("cacheWatchedHistory")
    /\ watched_episodes' = {}
    /\ fed_episodes' = {}
    /\ watched_movies' = {}
    /\ total_watched_episodes' = 0
    /\ snap_count' = 0
    /\ build_failed' = FALSE
    /\ ep_site' = "none"
    /\ pc' = "cache_shows"
    /\ last_request' = NoRequest
    /\ UNCHANGED <<fieldVars, watched_episode_tmdb_ids, tmdb_history_hydrated,
                   page, per_page, ret, ep_skipped, ep_backfills, ep_outcome, mv_backfills,
                   syncLocals, obsVars, auxVars>>

\* One episode entry of the watched shows.
CacheEpisode ==
    /\ pc = "cache_shows"
    /\ snap_count < MaxSnapshot
    /\ snap_count' = snap_count + 1
    /\ \E entry \in SnapshotEpisodes :
          IF entry.season = None \/ entry.episode = None
          THEN UNCHANGED <<total_watched_episodes, watched_episodes, fed_episodes,
                           watched_episode_tmdb_ids>>
          ELSE /\ total_watched_episodes' = total_watched_episodes + 1
               /\ watched_episodes' = watched_episodes \cup
                     generate_episode_keys(entry.title, entry.season, entry.episode)
               /\ fed_episodes' =
                     fed_episodes \cup {<<entry.title, entry.season, entry.episode>>}
               /\ watched_episode_tmdb_ids' =
                     IF entry.tmdb # None
                     THEN watched_episode_tmdb_ids \cup {entry.tmdb}
                     ELSE watched_episode_tmdb_ids
    /\ last_request' = NoRequest
    /\ UNCHANGED <<fieldVars, watched_movies, tmdb_history_hydrated, page, per_page, ret,
                   build_failed, calls, ep_skipped, ep_site, ep_backfills, ep_outcome,
                   mv_backfills, last_op, pc, syncLocals, obsVars, auxVars>>

\* The end of the shows loop: the coverage rule.
CacheCoverage ==
    /\ pc = "cache_shows"
    /\ snap_count' = 0
    /\ IF total_watched_episodes > 0
          /\ CoverageBelowThreshold(watched_episode_tmdb_ids, total_watched_episodes)
       THEN CallHydrateEpisodes("cache_movies", "coverage", PerPage)
       ELSE pc' = "cache_movies" /\ UNCHANGED <<ep_skipped, ep_site, page, per_page, ret>>
    /\ last_request' = NoRequest
    /\ UNCHANGED <<fieldVars, watched_episodes, fed_episodes, watched_episode_tmdb_ids, watched_movies,
                   tmdb_history_hydrated, total_watched_episodes, build_failed,
                   calls, ep_backfills, ep_outcome, mv_backfills, last_op,
                   syncLocals, obsVars, auxVars>>

\* One entry of the watched movies.
CacheMovie ==
    /\ pc = "cache_movies"
    /\ snap_count < MaxSnapshot
    /\ snap_count' = snap_count + 1
    /\ \E tmdb \in TmdbIds \cup {None} :
          watched_movies' = IF tmdb # None THEN watched_movies \cup {tmdb}
                            ELSE watched_movies
    /\ last_request' = NoRequest
    /\ UNCHANGED <<fieldVars, watched_episodes, fed_episodes, watched_episode_tmdb_ids,
                   tmdb_history_hydrated, total_watched_episodes, page, per_page, ret,
                   build_failed, calls, ep_skipped, ep_site, ep_backfills, ep_outcome,
                   mv_backfills, last_op, pc, syncLocals, obsVars, auxVars>>

\* The try block ends without an exception.
CacheBuilt ==
    /\ pc = "cache_movies"
    /\ pc' = "cache_tail"
    /\ total_watched_episodes' = 0
    /\ snap_count' = 0
    /\ last_request' = NoRequest
    /\ UNCHANGED <<fieldVars, watched_episodes, fed_episodes, watched_episode_tmdb_ids, watched_movies,
                   tmdb_history_hydrated, page, per_page, ret, build_failed, calls, ep_skipped, ep_site,
                   ep_backfills, ep_outcome, mv_backfills, last_op,
                   syncLocals, obsVars, auxVars>>

\* An exception inside the try block: the except branch.
CacheRaises ==
    /\ pc \in {"cache_shows", "cache_movies"}
    /\ watched_episodes' = {}
    /\ fed_episodes' = {}
    /\ watched_movies' = {}
    /\ build_failed' = TRUE
    /\ pc' = "cache_tail"
    /\ total_watched_episodes' = 0
    /\ snap_count' = 0
    /\ last_request' = NoRequest
    /\ UNCHANGED <<fieldVars, watched_episode_tmdb_ids, tmdb_history_hydrated,
                   page, per_page, ret, calls, ep_skipped, ep_site,
                   ep_backfills, ep_outcome, mv_backfills, last_op,
                   syncLocals, obsVars, auxVars>>

\* if not self._watched_episode_tmdb_ids:
TailEpisodesDue(ids) == ids = {}

\* if not self._watched_movies:
TailMoviesDue_Always(ids) == TRUE
TailMoviesDue(ids) == ids = {}

\* if not self._watched_episode_tmdb_ids: self.hydrate_tmdb_ids_from_history()
CacheTailEpisodes ==
    /\ pc = "cache_tail"
    /\ IF TailEpisodesDue(watched_episode_tmdb_ids)
       THEN CallHydrateEpisodes("cache_tail_movies", "tail", PerPage)
       ELSE pc' = "cache_tail_movies" /\ UNCHANGED <<ep_skipped, ep_site, page, per_page, ret>>
    /\ last_request' = NoRequest
    /\ UNCHANGED <<fieldVars, watched_episodes, fed_episodes, watched_episode_tmdb_ids, watched_movies,
                   tmdb_history_hydrated, total_watched_episodes, snap_count,
                   build_failed, calls, ep_backfills, ep_outcome, mv_backfills,
                   last_op, syncLocals, obsVars, auxVars>>

\* if not self._watched_movies: self.hydrate_movie_ids_from_history()
CacheTailMovies ==
    /\ pc = "cache_tail_movies"
    /\ IF TailMoviesDue(watched_movies)
       THEN CallHydrateMovies("ready", PerPage)
       ELSE pc' = "ready" /\ UNCHANGED <<page, per_page, ret>>
    /\ last_request' = NoRequest
    /\ UNCHANGED <<fieldVars, watched_episodes, fed_episodes, watched_episode_tmdb_ids, watched_movies,
                   tmdb_history_hydrated, total_watched_episodes, snap_count,
                   build_failed, calls, ep_skipped, ep_site, ep_backfills, ep_outcome,
                   mv_backfills, last_op, syncLocals, obsVars, auxVars>>

(***************************************************************************)
(* The cache of a fresh instance under calls from outside.                 *)
(***************************************************************************)
FreshInstance ==
    /\ dry_run = FALSE
    /\ auth_initialized = initialize_auth(dry_run)
    /\ page_size = 1
    /\ movies = <<>>
    /\ episodes = <<>>
    /\ failed_movies = <<>>
    /\ failed_episodes = <<>>
    /\ consecutive_auth_failures = 0
    /\ consecutive_rate_limits = 0
    /\ watched_episodes = {}
    /\ fed_episodes = {}
    /\ watched_episode_tmdb_ids = {}
    /\ watched_movies = {}
    /\ tmdb_history_hydrated = FALSE
    /\ CacheProcIdle
    /\ pc = "ready"
    /\ kind = "movies"
    /\ i = 0
    /\ attempt = 0
    /\ added_total = 0
    /\ batch_outcome = NoOutcome
    /\ min_delay = 0
    /\ last_error = NoError
    /\ result = ZeroResult
    /\ last_submit = NoSubmit
    /\ episode_submitted = FALSE
    /\ responded = {}
    /\ exhausted = {}
    /\ formed = [movies |-> <<>>, episodes |-> <<>>]
    /\ events = <<>>

InitCache == FreshInstance /\ AuxIdle

NextCache ==
    \/ addMovie
    \/ addEpisodeToHistory
    \/ cacheWatchedHistory
    \/ CacheEpisode
    \/ CacheCoverage
    \/ CacheMovie
    \/ CacheBuilt
    \/ CacheRaises
    \/ CacheTailEpisodes
    \/ CacheTailMovies
    \/ hydrate_tmdb_ids_from_history
    \/ hydrate_movie_ids_from_history
    \/ HydrateEpisodesPage
    \/ HydrateMoviesPage

SpecCache == InitCache /\ [][NextCache]_vars

(***************************************************************************)
(* The two backfills on their own, called with any per_page.               *)
(***************************************************************************)
\* the largest per_page a backfill is called with
MaxPerPage == 2

NextBackfill ==
    \/ \E per \in 1 .. MaxPerPage : hydrate_tmdb_ids_from_history_with(per)
    \/ \E per \in 1 .. MaxPerPage : hydrate_movie_ids_from_history_with(per)
    \/ HydrateEpisodesPage
    \/ HydrateMoviesPage

SpecBackfill == InitCache /\ [][NextBackfill]_vars

(***************************************************************************)
(* _generate_episode_keys on its own: one call with any title.             *)
(***************************************************************************)
\* the longest title tried, apart from the documented example
MaxTitleLen == 3

KeyAlphabet == {"A", "b", "1", ":", " ", "-"}
TheShowSpecialEdition ==
    <<"T", "h", "e", " ", "S", "h", "o", "w", ":", " ", "S", "p", "e", "c",
    "i", "a", "l", " ", "E", "d", "i", "t", "i", "o", "n">>
KeyTitles == SeqsUpTo(KeyAlphabet, MaxTitleLen) \cup {TheShowSpecialEdition}
KeySeasons == {1, 2}
KeyEpisodes == {1, 2}

CallGenerateEpisodeKeys ==
    /\ key_args = NoArgs
    /\ \E title \in KeyTitles, season_num \in KeySeasons, episode_num \in KeyEpisodes :
          /\ key_args' = [title |-> title, season |-> season_num, episode |-> episode_num]
          /\ key_result' = generate_episode_keys(title, season_num, episode_num)
    /\ UNCHANGED <<fieldVars, cacheVars, syncVars, obsVars, histVars, procVars, authVars>>

InitKeys == FreshInstance /\ AuxIdle

NextKeys == CallGenerateEpisodeKeys

SpecKeys == InitKeys /\ [][NextKeys]_vars

(***************************************************************************)
(* NetflixTvHistory (src/NetflixTvShow.py): the classifier of viewing      *)
(* records.  A title is a sequence of tokens: a token is a maximal run of  *)
(* word characters (\w) or one single other character.  The patterns of    *)
(* addEntry put their literals ": ", " " and " <en dash> " between their groups,   *)
(* so that no match ever ends inside a run of word characters.             *)
(***************************************************************************)

\* Runs of one or two digits, and the value int() gives them.
DigitTokens == {"1", "01", "2"}
IntOf(tok) == CASE tok = "1" -> 1 [] tok = "01" -> 1 [] tok = "2" -> 2

\* The other runs of word characters that occur in the titles below.
NameTokens == {"A", "B", "M", "S", "T", "e", "f", "x", "y", "123",
               "Pilot", "Part", "Uncut", "Rise", "of", "Special", "Edition",
               "The", "Movie", "Director", "Cut"}
WordTokens == DigitTokens \cup NameTokens
\* The en dash (U+2013) of the second pattern is written "ndash".
EnDash == "ndash"

\* The elements of a pattern: a literal character, .+ , .* , \d{1,2} , \w+
Lit(c) == [k |-> "lit", c |-> c]
Any1 == [k |-> "any1", c |-> ""]
Any0 == [k |-> "any0", c |-> ""]
D12 == [k |-> "d12", c |-> ""]
W1 == [k |-> "w1", c |-> ""]

Fits(e, seg) ==
    CASE e.k = "lit" -> seg = <<e.c>>
      [] e.k = "any1" -> Len(seg) >= 1
      [] e.k = "any0" -> TRUE
      [] e.k = "d12" -> Len(seg) = 1 /\ seg[1] \in DigitTokens
      [] e.k = "w1" -> Len(seg) >= 1 /\ \A x \in DOMAIN seg : seg[x] \in WordTokens

SetMax(S) == CHOOSE x \in S : \A y \in S : y <= x
SetMin(S) == CHOOSE x \in S : \A y \in S : x <= y

\* re.search with greedy quantifiers: every pattern of addEntry begins with
\* (.+) and ends with (.+) or (.*), so a match, if there is one, spans the
\* whole title; each quantifier in turn takes the longest stretch that
\* still lets the rest of the pattern match.  The result is the length
\* each element matched, or NoMatch.
NoMatch == <<-1>>
RECURSIVE search(_, _)
search(pat, t) ==
    IF pat = <<>>
    THEN IF t = <<>> THEN <<>> ELSE NoMatch
    ELSE LET e == Head(pat)
             rest(L) == SubSeq(t, L + 1, Len(t))
             cand == {L \in 0 .. Len(t) :
                         /\ Fits(e, SubSeq(t, 1, L))
                         /\ search(Tail(pat), rest(L)) # NoMatch}
         IN IF cand = {} THEN NoMatch
            ELSE <<SetMax(cand)>> \o search(Tail(pat), rest(SetMax(cand)))

RECURSIVE SumUpTo(_, _)
SumUpTo(lens, k) == IF k = 0 THEN 0 ELSE lens[k] + SumUpTo(lens, k - 1)

\* What element k of the pattern matched.
group(t, lens, k) == SubSeq(t, SumUpTo(lens, k - 1) + 1, SumUpTo(lens, k))

\* r"(.+): .+ (\d{1,2}): (.*)"
Pattern1 == <<Any1, Lit(":"), Lit(" "), Any1, Lit(" "), D12, Lit(":"), Lit(" "), Any0>>
\* r"(.+): .+ (\d{1,2}) <en dash> .+: (.*)"
Pattern2 == <<Any1, Lit(":"), Lit(" "), Any1, Lit(" "), D12, Lit(" "), Lit(EnDash),
              Lit(" "), Any1, Lit(":"), Lit(" "), Any0>>
\* r"(.+): \w+: (.+)"
Pattern3 == <<Any1, Lit(":"), Lit(" "), W1, Lit(":"), Lit(" "), Any1>>
\* r"(.+): (.+): (.+)"
Pattern4 == <<Any1, Lit(":"), Lit(" "), Any1, Lit(":"), Lit(" "), Any1>>
\* r"(.+): (.+)"
Pattern5 == <<Any1, Lit(":"), Lit(" "), Any1>>

(***************************************************************************)
(* Dates are the strings of the CSV's second column.  What str.lower,      *)
(* str.isdigit, re.sub and strptime make of each is tabulated, with        *)
(* config.CSV_DATETIME_FORMAT = "%d.%m.%y".                                *)
(***************************************************************************)
DateTexts == {"", "Date", "DATUM", "n/a", "31.02.23", "02.01.23", "01/02/23", "03.01.23"}

LowerDate(d) == CASE d = "Date" -> "date" [] d = "DATUM" -> "datum" [] OTHER -> d
HasDigit(d) == d \in {"31.02.23", "02.01.23", "01/02/23", "03.01.23"}
\* re.sub("[^0-9]", ".", watchedDate)
Dotted(d) == CASE d = "01/02/23" -> "01.02.23"
               [] d = "n/a" -> "..."
               [] d = "Date" -> "...."
               [] d = "DATUM" -> "....."
               [] OTHER -> d
NoTime == ""
\* strptime(d + " 20:15", "%d.%m.%y %H:%M"), formatted; NoTime for ValueError
DayMonthYear(d) == CASE d = "02.01.23" -> "2023-01-02T20:15:00.00Z"
                     [] d = "03.01.23" -> "2023-01-03T20:15:00.00Z"
                     [] OTHER -> NoTime
\* strptime(d + " 20:15", "%m.%d.%y %H:%M"), formatted; NoTime for ValueError
MonthDayYear(d) == CASE d = "01.02.23" -> "2023-01-02T20:15:00.00Z"
                     [] d = "02.01.23" -> "2023-02-01T20:15:00.00Z"
                     [] d = "03.01.23" -> "2023-03-01T20:15:00.00Z"
                     [] OTHER -> NoTime
ParseDate(d) == IF DayMonthYear(d) # NoTime THEN DayMonthYear(d)
                ELSE MonthDayYear(Dotted(d))

DateRejected_WhenEmpty(d) == d = ""

\* The two guards that open addTvShowEntry and addMovieEntry.
DateRejected(d) == d = "" \/ LowerDate(d) \in {"date", "datum"} \/ ~HasDigit(d)

(***************************************************************************)
(* The indicator phrases of isLikelyTvShow, searched ignoring case.  Each  *)
(* word of a phrase is given by the tokens of the titles below in which    *)
(* re.search finds it: "Part" ends with "part", "Uncut" contains "cut".    *)
(***************************************************************************)
Follows(t, x, first, second) ==
    /\ x + 2 <= Len(t)
    /\ t[x] \in first
    /\ t[x + 1] = " "
    /\ t[x + 2] \in second

\* Episode \d+, Part \d+, Chapter \d+, Act \d+; Season Finale, Pilot, Finale, Premiere
episode_patterns(t) ==
    \E x \in DOMAIN t :
       \/ Follows(t, x, {"Part"}, DigitTokens \cup {"123"})
       \/ t[x] \in {"Pilot"}

\* Legend of, Rise of, Return of, Age of; The .+ Movie; Director.*Cut;
\* Extended Edition, Special Edition; Uncut, Remastered
movie_patterns(t) ==
    \E x \in DOMAIN t :
       \/ Follows(t, x, {"Rise"}, {"of"})
       \/ \E y \in DOMAIN t :
             /\ y >= x + 4
             /\ t[x] \in {"The"} /\ t[x + 1] = " "
             /\ t[y - 1] = " " /\ t[y] \in {"Movie"}
       \/ \E y \in DOMAIN t : y > x /\ t[x] \in {"Director"} /\ t[y] \in {"Cut", "Uncut"}
       \/ Follows(t, x, {"Special"}, {"Edition"})
       \/ t[x] \in {"Uncut"}

isLikelyTvShow_MovieIndicatorFirst(known, showName, episodeTitle) ==
    IF showName \in known THEN "True"
    ELSE IF movie_patterns(showName \o <<":", " ">> \o episodeTitle) THEN "False"
    ELSE IF episode_patterns(episodeTitle) THEN "True"
    ELSE "None"

\* True, False or None
isLikelyTvShow(known, showName, episodeTitle) ==
    IF showName \in known THEN "True"
    ELSE IF episode_patterns(episodeTitle) THEN "True"
    ELSE IF movie_patterns(showName \o <<":", " ">> \o episodeTitle) THEN "False"
    ELSE "None"

(***************************************************************************)
(* The entities.  An item (a Movie or an Episode) keeps, beside its name   *)
(* and its set of timestamps, a record of the addWatchedDate calls made    *)
(* on it: the date strings passed, the number of calls and the number of   *)
(* calls that stored a timestamp.                                          *)
(***************************************************************************)
NetflixWatchableItem(name) ==
    [name |-> name, watchedAt |-> {}, added |-> {}, adds |-> 0, stored |-> 0]
NetflixTvShowSeason(seasonNumber, seasonName) ==
    [number |-> seasonNumber, name |-> seasonName, episodes |-> <<>>]
NetflixTvShow(showName) == [name |-> showName, seasons |-> <<>>]

\* seasonNumber = None, seasonName = None
NoSeasonNumber == -1
NoSeasonName == <<>>

AddTimestamp_Overwrites(watchedAt, formatted_date) == {formatted_date}

AddTimestamp(watchedAt, formatted_date) == watchedAt \cup {formatted_date}

addWatchedDate(item, watchedDate) ==
    [item EXCEPT !.watchedAt = IF ParseDate(watchedDate) = NoTime THEN @
                               ELSE AddTimestamp(@, ParseDate(watchedDate)),
                 !.added = @ \cup {watchedDate},
                 !.adds = @ + 1,
                 !.stored = IF ParseDate(watchedDate) = NoTime THEN @ ELSE @ + 1]

\* The position of the first entity of the list with the name, 0 for None.
ByName(list, name) ==
    IF \E x \in DOMAIN list : list[x].name = name
    THEN SetMin({x \in DOMAIN list : list[x].name = name})
    ELSE 0

getTvShow(h, showName) == ByName(h.shows, showName)
getMovie(h, movieName) == ByName(h.movies, movieName)
getEpisodeByName(season, episodeName) == ByName(season.episodes, episodeName)

getSeasonByNumber(show, seasonNumber) ==
    IF \E x \in DOMAIN show.seasons : show.seasons[x].number = seasonNumber
    THEN SetMin({x \in DOMAIN show.seasons : show.seasons[x].number = seasonNumber})
    ELSE 0

getSeasonByName(show, seasonName) ==
    IF seasonName # NoSeasonName THEN ByName(show.seasons, seasonName) ELSE 0

\* The position of the season addSeason returns, 0 if it has to append one.
FindSeason(show, seasonNumber, seasonName) ==
    LET effective_season_number == IF seasonNumber # NoSeasonNumber THEN seasonNumber ELSE 1
    IN IF getSeasonByNumber(show, effective_season_number) # 0
       THEN getSeasonByNumber(show, effective_season_number)
       ELSE getSeasonByName(show, seasonName)

addSeason(show, seasonNumber, seasonName) ==
    IF FindSeason(show, seasonNumber, seasonName) # 0 THEN show
    ELSE [show EXCEPT !.seasons =
             Append(@, NetflixTvShowSeason(
                 IF seasonNumber # NoSeasonNumber THEN seasonNumber ELSE 1, seasonName))]

addEpisode_AlwaysAppends(season, episodeName) ==
    [season EXCEPT !.episodes = Append(@, NetflixWatchableItem(episodeName))]

addEpisode(season, episodeName) ==
    IF getEpisodeByName(season, episodeName) # 0 THEN season
    ELSE [season EXCEPT !.episodes = Append(@, NetflixWatchableItem(episodeName))]

addTvShow_AlwaysAppends(h, showName) == Append(h.shows, NetflixTvShow(showName))

addTvShow(h, showName) ==
    IF getTvShow(h, showName) # 0 THEN h.shows
    ELSE Append(h.shows, NetflixTvShow(showName))

addTvShowEntry(h, showName, seasonNumber, episodeTitle, watchedDate, seasonName) ==
    IF DateRejected(watchedDate) THEN h
    ELSE LET shows1 == addTvShow(h, showName)
             s == ByName(shows1, showName)
             show == addSeason(shows1[s], seasonNumber, seasonName)
             n == FindSeason(show, seasonNumber, seasonName)
             season == addEpisode(show.seasons[n], episodeTitle)
             e == getEpisodeByName(season, episodeTitle)
             episode == addWatchedDate(season.episodes[e], watchedDate)
         IN [h EXCEPT
               !.shows = [shows1 EXCEPT ![s] =
                            [show EXCEPT !.seasons[n] =
                                [season EXCEPT !.episodes[e] = episode]]],
               !.known_show_names = @ \cup {showName},
               !.classification_stats =
                   IF seasonNumber # NoSeasonNumber \/ seasonName # NoSeasonName
                   THEN [@ EXCEPT !.episodes_certain = @ + 1]
                   ELSE [@ EXCEPT !.episodes_inferred = @ + 1]]

addMovieEntry_PopsLast(h, movieTitle, watchedDate) ==
    IF DateRejected(watchedDate) THEN h
    ELSE IF getMovie(h, movieTitle) # 0
    THEN [h EXCEPT !.movies[getMovie(h, movieTitle)] = addWatchedDate(@, watchedDate)]
    ELSE IF ParseDate(watchedDate) = NoTime
    THEN [h EXCEPT !.movies = SubSeq(@, 1, Len(@) - 1)]
    ELSE [h EXCEPT !.movies =
             Append(@, addWatchedDate(NetflixWatchableItem(movieTitle), watchedDate))]

addMovieEntry_ConfirmsName(h, movieTitle, watchedDate) ==
    IF DateRejected(watchedDate) THEN h
    ELSE IF getMovie(h, movieTitle) # 0
    THEN [h EXCEPT !.movies[getMovie(h, movieTitle)] = addWatchedDate(@, watchedDate)]
    ELSE IF ParseDate(watchedDate) = NoTime THEN h
    ELSE [h EXCEPT !.movies =
                      Append(@, addWatchedDate(NetflixWatchableItem(movieTitle), watchedDate)),
                   !.known_show_names = @ \cup {movieTitle}]

addMovieEntry(h, movieTitle, watchedDate) ==
    IF DateRejected(watchedDate) THEN h
    ELSE IF getMovie(h, movieTitle) # 0
    THEN [h EXCEPT !.movies[getMovie(h, movieTitle)] = addWatchedDate(@, watchedDate)]
    ELSE IF ParseDate(watchedDate) = NoTime THEN h
    ELSE [h EXCEPT !.movies =
             Append(@, addWatchedDate(NetflixWatchableItem(movieTitle), watchedDate))]

PendingRecord(entryTitle, showName, episodeTitle, entryDate) ==
    [title |-> entryTitle, show_name |-> showName,
     episode_title |-> episodeTitle, date |-> entryDate]

\* The cascade of patterns of addEntry: the first pattern that matches the
\* title (0 when none does) and what its groups captured.
parse(entryTitle) ==
    LET m1 == search(Pattern1, entryTitle)
        m2 == search(Pattern2, entryTitle)
        m3 == search(Pattern3, entryTitle)
        m4 == search(Pattern4, entryTitle)
        m5 == search(Pattern5, entryTitle)
        g(m, k) == group(entryTitle, m, k)
        found(p, showName, seasonNumber, seasonName, episodeTitle) ==
            [pattern |-> p, showName |-> showName, seasonNumber |-> seasonNumber,
             seasonName |-> seasonName, episodeTitle |-> episodeTitle]
    IN IF m1 # NoMatch
       THEN found(1, g(m1, 1), IntOf(g(m1, 6)[1]), NoSeasonName, g(m1, 9))
       ELSE IF m2 # NoMatch
       THEN found(2, g(m2, 1), IntOf(g(m2, 6)[1]), NoSeasonName, g(m2, 13))
       ELSE IF m3 # NoMatch
       THEN found(3, g(m3, 1), 1, NoSeasonName, g(m3, 7))
       ELSE IF m4 # NoMatch
       THEN found(4, g(m4, 1), NoSeasonNumber, g(m4, 4), g(m4, 7))
       ELSE IF m5 # NoMatch
       THEN found(5, g(m5, 1), 1, NoSeasonName, g(m5, 4))
       ELSE found(0, <<>>, NoSeasonNumber, NoSeasonName, <<>>)

addEntryAs_QueuesAndAddsMovie(h, res, entryTitle, entryDate) ==
    IF res.pattern \in 1 .. 4
    THEN addTvShowEntry(h, res.showName, res.seasonNumber, res.episodeTitle,
                        entryDate, res.seasonName)
    ELSE IF res.pattern = 5
            /\ isLikelyTvShow(h.known_show_names, res.showName, res.episodeTitle) = "True"
    THEN addTvShowEntry(h, res.showName, 1, res.episodeTitle, entryDate, NoSeasonName)
    ELSE IF res.pattern = 5
            /\ isLikelyTvShow(h.known_show_names, res.showName, res.episodeTitle) = "None"
    THEN addMovieEntry([h EXCEPT !.ambiguous_entries =
             Append(@, PendingRecord(entryTitle, res.showName, res.episodeTitle, entryDate))],
                       entryTitle, entryDate)
    ELSE addMovieEntry(h, entryTitle, entryDate)

\* The history after addEntry(entryTitle, entryDate), res being parse(entryTitle).
addEntryAs(h, res, entryTitle, entryDate) ==
    IF res.pattern \in 1 .. 4
    THEN addTvShowEntry(h, res.showName, res.seasonNumber, res.episodeTitle,
                        entryDate, res.seasonName)
    ELSE IF res.pattern = 5
            /\ isLikelyTvShow(h.known_show_names, res.showName, res.episodeTitle) = "True"
    THEN addTvShowEntry(h, res.showName, 1, res.episodeTitle, entryDate, NoSeasonName)
    ELSE IF res.pattern = 5
            /\ isLikelyTvShow(h.known_show_names, res.showName, res.episodeTitle) = "None"
    THEN [h EXCEPT !.ambiguous_entries =
             Append(@, PendingRecord(entryTitle, res.showName, res.episodeTitle, entryDate))]
    ELSE addMovieEntry(h, entryTitle, entryDate)

\* len(show_frequencies[show_name])
show_frequencies(entries, show_name) ==
    Cardinality({x \in DOMAIN entries : entries[x].show_name = show_name})

Repeated_Once(n) == n >= 1

Repeated(n) == n >= 2

\* The loop of resolveAmbiguousEntries from its k-th entry on; the
\* frequencies were counted over the whole list before the loop began.
RECURSIVE ResolveFrom_CountsSeenSoFar(_, _, _)
ResolveFrom_CountsSeenSoFar(h, k, entries) ==
    IF k > Len(entries) THEN h
    ELSE LET entry == entries[k]
             h1 == IF entry.show_name \in h.known_show_names
                      \/ Repeated(show_frequencies(SubSeq(entries, 1, k), entry.show_name))
                   THEN [addTvShowEntry(h, entry.show_name, 1, entry.episode_title,
                                        entry.date, NoSeasonName)
                           EXCEPT !.classification_stats.ambiguous_resolved = @ + 1]
                   ELSE addMovieEntry(h, entry.title, entry.date)
         IN ResolveFrom_CountsSeenSoFar(h1, k + 1, entries)

RECURSIVE ResolveFrom(_, _, _)
ResolveFrom(h, k, entries) ==
    IF k > Len(entries) THEN h
    ELSE LET entry == entries[k]
             h1 == IF entry.show_name \in h.known_show_names
                   THEN [addTvShowEntry(h, entry.show_name, 1, entry.episode_title,
                                        entry.date, NoSeasonName)
                           EXCEPT !.classification_stats.ambiguous_resolved = @ + 1]
                   ELSE IF Repeated(show_frequencies(entries, entry.show_name))
                   THEN [addTvShowEntry(h, entry.show_name, 1, entry.episode_title,
                                        entry.date, NoSeasonName)
                           EXCEPT !.classification_stats.ambiguous_resolved = @ + 1]
                   ELSE addMovieEntry(h, entry.title, entry.date)
         IN ResolveFrom(h1, k + 1, entries)

\* The history after resolveAmbiguousEntries().
resolved_KeepsList(h) == ResolveFrom(h, 1, h.ambiguous_entries)

resolved(h) ==
    [ResolveFrom(h, 1, h.ambiguous_entries) EXCEPT !.ambiguous_entries = <<>>]

(***************************************************************************)
(* The calls made on one NetflixTvHistory, as netflix2trakt.main makes     *)
(* them: addEntry for the rows of the CSV, resolveAmbiguousEntries.        *)
(***************************************************************************)
MaxEntries == 2

Sep == <<":", " ">>
EntryTitles ==
    {<<"A">> \o Sep \o <<"S", " ", "1">> \o Sep \o <<"e">>,
     <<"A">> \o Sep \o <<"S", " ", "01">> \o Sep \o <<"e">>,
     <<"A">> \o Sep \o <<"S", " ", "2">> \o Sep \o <<"e">>,
     <<"A">> \o Sep \o <<"S", " ", "1">> \o Sep \o <<"f">>,
     <<"A">> \o Sep \o <<"S", " ", "1", " ", EnDash, " ", "T">> \o Sep \o <<"e">>,
     <<"A">> \o Sep \o <<"M">> \o Sep \o <<"e">>,
     <<"A">> \o Sep \o <<"x", " ", "y">> \o Sep \o <<"e">>,
     <<"A">> \o Sep \o <<"x", " ", "f">> \o Sep \o <<"e">>,
     <<"A">> \o Sep \o <<"e">>,
     <<"A">> \o Sep \o <<"f">>,
     <<"B">> \o Sep \o <<"e">>,
     <<"A">> \o Sep \o <<"Pilot">>,
     <<"A">> \o Sep \o <<"Uncut">>,
     <<"A">> \o Sep \o <<"Pilot", " ", "Uncut">>,
     <<"M">>}
EntryDates == DateTexts

\* parse, evaluated once for each title the rows can hold.
parsed == [entryTitle \in EntryTitles |-> parse(entryTitle)]

History ==
    [shows |-> shows, movies |-> history_movies,
     known_show_names |-> known_show_names,
     ambiguous_entries |-> ambiguous_entries,
     classification_stats |-> classification_stats]

Becomes(h) ==
    /\ shows' = h.shows
    /\ history_movies' = h.movies
    /\ known_show_names' = h.known_show_names
    /\ ambiguous_entries' = h.ambiguous_entries
    /\ classification_stats' = h.classification_stats

addEntry ==
    /\ entries_added < MaxEntries
    /\ \E entryTitle \in EntryTitles, entryDate \in EntryDates :
          /\ Becomes(addEntryAs(History, parsed[entryTitle], entryTitle, entryDate))
          /\ last_entry' = [op |-> "addEntry", title |-> entryTitle, date |-> entryDate]
    /\ entries_added' = entries_added + 1
    /\ UNCHANGED <<fieldVars, cacheVars, syncVars, obsVars, keyVars, procVars, authVars>>

resolveAmbiguousEntries ==
    /\ Becomes(resolved(History))
    /\ last_entry' = [op |-> "resolveAmbiguousEntries", title |-> <<>>, date |-> ""]
    /\ UNCHANGED <<entries_added, fieldVars, cacheVars, syncVars, obsVars, keyVars, procVars, authVars>>

InitHistory == FreshInstance /\ AuxIdle

NextHistory == addEntry \/ resolveAmbiguousEntries

SpecHistory == InitHistory /\ [][NextHistory]_vars

(***************************************************************************)
(* processShow: the episodes of the history, one after the other, on an    *)
(* instance whose cache was built at construction.                         *)
(***************************************************************************)
\* history episodes processed in one run
MaxProcessed == 3
\* watch timestamps of one history episode
MaxPlays == 2

ProcessedNumbers == {1, 2}

\* What the three matching attempts of lines 633-703 end in: no catalog
\* episode, or an episode number and a catalog identifier.
Unmatched == [matched |-> FALSE, episode |-> None, tmdb |-> NoId]
Matches ==
    {Unmatched} \cup [matched : {TRUE}, episode : ProcessedNumbers, tmdb : {IntId(1), IntId(2)}]

\* make_episode_unique_marker(show_name, season_number, episode_number, tmdb_id)
make_episode_unique_marker(show_name, season_number, episode_number, tmdb_id) ==
    IF tmdb_id # None
    THEN [marker |-> "tmdb", tmdb |-> tmdb_id, show |-> <<>>, season |-> None, episode |-> None]
    ELSE [marker |-> "slug", tmdb |-> None, show |-> lower(show_name),
          season |-> season_number, episode |-> episode_number]

\* for watched_at in episode.watchedAt: ... traktIO.addEpisodeToHistory(episode_data, ...)
QueuedPlays(tmdb_id, plays) == [k \in 1 .. plays |-> Play(tmdb_id, k)]

\* The body of the episode loop for one episode that has `plays` timestamps.
processEpisode(show_name, season_number, plays, match) ==
    LET episode_number == match.episode
        tmdb_numeric_id == parse_tmdb_id(match.tmdb)
        episode_keys == generate_episode_keys(show_name, season_number, episode_number)
        preexisting_by_tmdb ==
            tmdb_numeric_id # None /\ tmdb_numeric_id \in start_episode_tmdb_snapshot
        preexisting_by_key == episode_keys \cap start_episode_snapshot # {}
        preexisting == preexisting_by_tmdb \/ preexisting_by_key
    IN /\ total_processed_episodes' = total_processed_episodes + 1
       /\ last_processed' = [show |-> show_name, season |-> season_number,
                             episode |-> episode_number, tmdb |-> match.tmdb,
                             plays |-> plays, matched |-> match.matched]
       /\ IF ~match.matched
          THEN /\ total_episodes_skipped_no_tmdb' = total_episodes_skipped_no_tmdb + 1
               /\ UNCHANGED <<episodes, watched_episodes, fed_episodes,
                              watched_episode_tmdb_ids, queued_unique_episode_markers,
                              total_episodes_added, total_episodes_skipped_watched,
                              skipped_preexisting_snapshot, skipped_within_run_duplicates,
                              queued_log>>
          ELSE IF isEpisodeWatched(show_name, season_number, episode_number, match.tmdb)
          THEN /\ total_episodes_skipped_watched' = total_episodes_skipped_watched + 1
               /\ IF preexisting
                  THEN /\ skipped_preexisting_snapshot' = skipped_preexisting_snapshot + 1
                       /\ UNCHANGED skipped_within_run_duplicates
                  ELSE /\ skipped_within_run_duplicates' = skipped_within_run_duplicates + 1
                       /\ UNCHANGED skipped_preexisting_snapshot
               /\ UNCHANGED <<episodes, watched_episodes, fed_episodes,
                              watched_episode_tmdb_ids, queued_unique_episode_markers,
                              total_episodes_added, total_episodes_skipped_no_tmdb,
                              queued_log>>
          ELSE /\ queued_unique_episode_markers' =
                     IF ~preexisting
                     THEN queued_unique_episode_markers \cup
                             {make_episode_unique_marker(show_name, season_number,
                                                         episode_number, tmdb_numeric_id)}
                     ELSE queued_unique_episode_markers
               /\ episodes' = episodes \o QueuedPlays(tmdb_numeric_id, plays)
               /\ watched_episode_tmdb_ids' =
                     IF plays > 0 /\ tmdb_numeric_id # None
                     THEN watched_episode_tmdb_ids \cup {tmdb_numeric_id}
                     ELSE watched_episode_tmdb_ids
               /\ watched_episodes' =
                     IF plays > 0
                     THEN PreCacheKeys(watched_episodes, show_name, season_number,
                                       episode_number)
                     ELSE watched_episodes
               /\ fed_episodes' =
                     IF plays > 0
                     THEN fed_episodes \cup {<<show_name, season_number, episode_number>>}
                     ELSE fed_episodes
               /\ total_episodes_added' = total_episodes_added + plays
               /\ queued_log' = queued_log \cup {last_processed'}
               /\ UNCHANGED <<total_episodes_skipped_watched,
                              total_episodes_skipped_no_tmdb,
                              skipped_preexisting_snapshot, skipped_within_run_duplicates>>

\* One turn of the episode loop of processShow.
processShow_Episode ==
    /\ pc = "ready"
    /\ total_processed_episodes < MaxProcessed
    /\ \E show_name \in Titles, season_number \in Seasons, plays \in 0 .. MaxPlays,
          match \in Matches :
          processEpisode(show_name, season_number, plays, match)
    /\ UNCHANGED <<dry_run, auth_initialized, page_size, movies, failed_movies,
                   failed_episodes, consecutive_auth_failures, consecutive_rate_limits,
                   watched_movies, tmdb_history_hydrated, cacheProc,
                   start_episode_snapshot, start_episode_tmdb_snapshot,
                   syncVars, obsVars, keyVars, histVars, authVars>>

\* The show, or one of its seasons, is not in the catalog: its episodes are
\* counted as processed and as skipped in one go.
processShow_NotFound ==
    /\ pc = "ready"
    /\ \E episode_count \in 1 .. (MaxProcessed - total_processed_episodes) :
          /\ total_episodes_skipped_no_tmdb' = total_episodes_skipped_no_tmdb + episode_count
          /\ total_processed_episodes' = total_processed_episodes + episode_count
    /\ last_processed' = NoProcessed
    /\ UNCHANGED <<fieldVars, cacheVars, syncVars, obsVars, keyVars, histVars, authVars,
                   start_episode_snapshot, start_episode_tmdb_snapshot,
                   queued_unique_episode_markers, total_episodes_added,
                   total_episodes_skipped_watched, skipped_preexisting_snapshot,
                   skipped_within_run_duplicates, queued_log>>

\* main, lines 965-1021: the instance is constructed, which builds its cache
\* from what was fed to it, and the two snapshots are taken of the cache.
InitProcess ==
    /\ dry_run = FALSE
    /\ auth_initialized = initialize_auth(dry_run)
    /\ page_size = 1
    /\ movies = <<>>
    /\ episodes = <<>>
    /\ failed_movies = <<>>
    /\ failed_episodes = <<>>
    /\ consecutive_auth_failures = 0
    /\ consecutive_rate_limits = 0
    /\ fed_episodes \in SUBSET (Titles \X Seasons \X EpisodeNumbers)
    /\ watched_episodes =
          UNION {generate_episode_keys(f[1], f[2], f[3]) : f \in fed_episodes}
    /\ watched_episode_tmdb_ids \in SUBSET TmdbIds
    /\ watched_movies = {}
    /\ tmdb_history_hydrated = FALSE
    /\ CacheProcIdle
    /\ pc = "ready"
    /\ kind = "movies"
    /\ i = 0
    /\ attempt = 0
    /\ added_total = 0
    /\ batch_outcome = NoOutcome
    /\ min_delay = 0
    /\ last_error = NoError
    /\ result = ZeroResult
    /\ last_submit = NoSubmit
    /\ episode_submitted = FALSE
    /\ responded = {}
    /\ exhausted = {}
    /\ formed = [movies |-> <<>>, episodes |-> <<>>]
    /\ events = <<>>
    /\ KeysIdle
    /\ HistoryIdle
    /\ AuthIdle
    /\ start_episode_snapshot = watched_episodes
    /\ start_episode_tmdb_snapshot = watched_episode_tmdb_ids
    /\ queued_unique_episode_markers = {}
    /\ total_processed_episodes = 0
    /\ total_episodes_added = 0
    /\ total_episodes_skipped_watched = 0
    /\ total_episodes_skipped_no_tmdb = 0
    /\ skipped_preexisting_snapshot = 0
    /\ skipped_within_run_duplicates = 0
    /\ queued_log = {}
    /\ last_processed = NoProcessed

NextProcess == processShow_Episode \/ processShow_NotFound

SpecProcess == InitProcess /\ [][NextProcess]_vars

(***************************************************************************)
(* The device authentication: the thread that calls authenticate() and     *)
(* the poller thread that authenticate() starts.                           *)
(***************************************************************************)
\* on_poll callbacks before the completion event
MaxPolls == 2

CompletionEvents == {"aborted", "authenticated", "expired"}

\* is_authenticating.acquire(blocking=False) without taking the lock
acquired_NotTaken(cond, thread) == cond
\* is_authenticating.acquire(...) by `thread`, the lock being free
acquired(cond, thread) == [cond EXCEPT !.owner = thread]
\* is_authenticating.release()
released(cond) == [cond EXCEPT !.owner = "none"]
\* is_authenticating.wait(), first half: the thread is queued as a waiter
\* and gives the lock up, in one step
waiting(cond, thread) == [owner |-> "none", waiters |-> cond.waiters \cup {thread}]
\* is_authenticating.notify_all()
notified(cond) == [cond EXCEPT !.waiters = {}]

callerUnchanged == UNCHANGED <<authorization, auth_file, poller_pc, auth_event, polls,
                               event_before_wait>>
pollerUnchanged == UNCHANGED <<caller_pc>>
authFrame == UNCHANGED <<fieldVars, cacheVars, syncVars, obsVars, keyVars, histVars, procVars>>

\* if not self.is_authenticating.acquire(blocking=False): ... return False
authenticate ==
    /\ caller_pc = "idle"
    /\ IF is_authenticating.owner = "none"
       THEN /\ is_authenticating' = acquired(is_authenticating, "caller")
            /\ caller_pc' = "code"
       ELSE /\ caller_pc' = "returned_false"
            /\ UNCHANGED is_authenticating
    /\ callerUnchanged
    /\ authFrame

\* code_info = Trakt["oauth/device"].code() and the message to the user
authenticate_code ==
    /\ caller_pc = "code"
    /\ caller_pc' = "start"
    /\ UNCHANGED is_authenticating
    /\ callerUnchanged
    /\ authFrame

\* poller.start(daemon=False)
authenticate_start ==
    /\ caller_pc = "start"
    /\ caller_pc' = "wait"
    /\ poller_pc' = "polling"
    /\ UNCHANGED <<is_authenticating, authorization, auth_file, auth_event, polls,
                   event_before_wait>>
    /\ authFrame

\* return self.is_authenticating.wait(): the caller starts to wait
authenticate_wait ==
    /\ caller_pc = "wait"
    /\ is_authenticating' = waiting(is_authenticating, "caller")
    /\ caller_pc' = "waiting"
    /\ callerUnchanged
    /\ authFrame

\* ... and, once notified, takes the lock again and returns True
authenticate_return ==
    /\ caller_pc = "waiting"
    /\ "caller" \notin is_authenticating.waiters
    /\ is_authenticating.owner = "none"
    /\ is_authenticating' = acquired(is_authenticating, "caller")
    /\ caller_pc' = "returned"
    /\ callerUnchanged
    /\ authFrame

\* on_poll: callback(True)
on_poll ==
    /\ poller_pc = "polling"
    /\ polls < MaxPolls
    /\ polls' = polls + 1
    /\ UNCHANGED <<is_authenticating, authorization, auth_file, poller_pc, auth_event,
                   event_before_wait>>
    /\ pollerUnchanged
    /\ authFrame

\* The poller delivers `event` and the handler runs up to its call of
\* _notify_auth_complete.
Delivered(event) ==
    /\ poller_pc = "polling"
    /\ auth_event' = event
    /\ event_before_wait' = (caller_pc # "waiting")
    /\ poller_pc' = "acquire"
    /\ UNCHANGED <<is_authenticating, polls>>
    /\ pollerUnchanged
    /\ authFrame

on_aborted == Delivered("aborted") /\ UNCHANGED <<authorization, auth_file>>

on_authenticated ==
    /\ Delivered("authenticated")
    /\ authorization' = "token"
    /\ auth_file' = TRUE

on_expired == Delivered("expired") /\ UNCHANGED <<authorization, auth_file>>

\* _notify_auth_complete: self.is_authenticating.acquire(), which blocks
\* while another thread holds the lock
notify_auth_complete_acquire ==
    /\ poller_pc = "acquire"
    /\ is_authenticating.owner = "none"
    /\ is_authenticating' = acquired(is_authenticating, "poller")
    /\ poller_pc' = "notify"
    /\ UNCHANGED <<authorization, auth_file, auth_event, polls, event_before_wait>>
    /\ pollerUnchanged
    /\ authFrame

\* self.is_authenticating.notify_all()
notify_auth_complete_notify ==
    /\ poller_pc = "notify"
    /\ is_authenticating' = notified(is_authenticating)
    /\ poller_pc' = "release"
    /\ UNCHANGED <<authorization, auth_file, auth_event, polls, event_before_wait>>
    /\ pollerUnchanged
    /\ authFrame

\* self.is_authenticating.release()
notify_auth_complete_release ==
    /\ poller_pc = "release"
    /\ is_authenticating' = released(is_authenticating)
    /\ poller_pc' = "done"
    /\ UNCHANGED <<authorization, auth_file, auth_event, polls, event_before_wait>>
    /\ pollerUnchanged
    /\ authFrame

InitAuth == FreshInstance /\ AuxIdle

CallerNext ==
    \/ authenticate
    \/ authenticate_code
    \/ authenticate_start
    \/ authenticate_wait
    \/ authenticate_return

HandlerNext ==
    \/ notify_auth_complete_acquire
    \/ notify_auth_complete_notify
    \/ notify_auth_complete_release

NextAuth ==
    \/ CallerNext
    \/ on_poll
    \/ on_aborted
    \/ on_authenticated
    \/ on_expired
    \/ HandlerNext

\* Both threads are scheduled again and again; when the poller delivers its
\* completion event, and whether it does, is up to the remote and the user.
SpecAuth == InitAuth /\ [][NextAuth]_vars /\ WF_vars(CallerNext) /\ WF_vars(HandlerNext)

(***************************************************************************)
(* Properties of the sync engine, checked under SpecSync.                  *)
(***************************************************************************)
Count(x, seq) == Cardinality({j \in DOMAIN seq : seq[j] = x})
CeilDiv(n, p) == (n + p - 1) \div p

\* The phase of kind k of a real (not dry) sync() has run to its end.
PhaseDone(k) ==
    /\ ~dry_run
    /\ IF k = "movies"
       THEN pc \in {"between", "report", "returned"} \/ kind = "episodes"
       ELSE pc \in {"report", "returned"}

\* C1: once the consecutive authentication-failure counter has reached the
\* fatal threshold, no further submission is made to the remote service:
\* neither a retry of the current batch nor a later batch.
C1_NoSubmissionAfterFatalThreshold ==
    [][FatalAuth(consecutive_auth_failures) => last_submit' = last_submit]_vars

\* C2: a batch whose every allowed attempt failed has all of its items in the
\* failed list of its kind, once each, with the failed counter counting them
\* item by item; it is never submitted again and the loop moves past it.
C2_ExhaustedBatchFailedInFull ==
    \A kb \in exhausted :
        LET k == kb[1]
            b == kb[2]
            batch == formed[k][b]
            recorded == ~(pc = "batch_result" /\ kind = k /\ BatchNum(i, page_size) = b)
        IN /\ last_submit.kind = k => last_submit.batch >= b
           /\ (last_submit.kind = k /\ last_submit.batch = b)
                 => last_submit.attempt = MAX_RETRY_ATTEMPTS
           /\ recorded =>
                 /\ \A x \in Range(batch) : Count(x, Failed(k)) = 1
                 /\ result.failed[k] = Len(Failed(k))
                 /\ kind = k => i >= b * page_size

C2_Witness ==
    /\ pc = "attempt"
    /\ \E kb \in exhausted : kb[1] = kind /\ kb[2] < BatchNum(i, page_size)
    /\ Len(formed[kind][1]) = 2

\* C3: after a real sync() on a fresh instance returned, for each kind the
\* batches cover the pending list item by item, every batch received a
\* response or lies wholly in the failed list, and the failed counter is the
\* length of the failed list and at most the number of pending items.
C3_NoItemSilentlyLost ==
    (pc = "returned" /\ ~dry_run) =>
        \A k \in Kinds :
            /\ Flatten(formed[k]) = Pending(k)
            /\ \A b \in 1 .. Len(formed[k]) :
                  \/ <<k, b>> \in responded
                  \/ \A x \in Range(formed[k][b]) : Count(x, Failed(k)) >= 1
            /\ result.failed[k] = Len(Failed(k))
            /\ result.failed[k] <= Len(Pending(k))

C3_Witness ==
    /\ pc = "returned"
    /\ ~dry_run
    /\ <<"movies", 1>> \in exhausted
    /\ <<"episodes", 1>> \in responded
    /\ <<"episodes", 2>> \in responded
    /\ batch_outcome.status = "none"
    /\ result.failed.movies = 1
    /\ result.failed.episodes = 1

\* C5: a phase over n pending items with page size p forms ceil(n/p) batches;
\* all but the last hold p items, the last holds 1..p, and in order they
\* concatenate to the pending list.
C5_BatchesPartitionPending ==
    \A k \in Kinds :
        PhaseDone(k) =>
            LET bs == formed[k]
            IN /\ Len(bs) = CeilDiv(Len(Pending(k)), page_size)
               /\ \A b \in 1 .. Len(bs) :
                     /\ b < Len(bs) => Len(bs[b]) = page_size
                     /\ Len(bs[b]) \in 1 .. page_size
               /\ Flatten(bs) = Pending(k)

C5_Witness ==
    /\ PhaseDone("episodes")
    /\ page_size = 2
    /\ Len(formed.episodes) = 2
    /\ Len(formed.episodes[1]) = 2
    /\ Len(formed.episodes[2]) = 1

\* C6: no movie batch is submitted (first attempt or retry) once an episode
\* batch has been submitted; the initial delay comes before the first batch;
\* the inter-phase delay lies between every movie batch and every episode batch.
C6_MoviesBeforeEpisodes ==
    /\ last_submit.kind = "movies" => ~episode_submitted
    /\ \A j \in DOMAIN events :
          events[j][1] = "batch" =>
              \E j0 \in 1 .. (j - 1) : events[j0] = <<"initial_delay">>
    /\ LET MB == {j \in DOMAIN events : events[j][1] = "batch" /\ events[j][2] = "movies"}
           EB == {j \in DOMAIN events : events[j][1] = "batch" /\ events[j][2] = "episodes"}
           PD == {j \in DOMAIN events : events[j] = <<"phase_delay">>}
       IN (MB # {} /\ EB # {}) =>
              \E d \in PD : (\A j1 \in MB : j1 < d) /\ (\A j2 \in EB : d < j2)

C6_Witness ==
    /\ pc = "attempt"
    /\ kind = "episodes"
    /\ attempt = 2
    /\ <<"movies", 1>> \in exhausted

\* C7: the rate-limit step is taken right before every batch of a phase (so
\* between every two consecutive batches) and never after the last one.
C7_RateLimitBetweenBatches ==
    /\ \A j \in DOMAIN events :
          events[j][1] = "batch" =>
              /\ j > 1
              /\ events[j - 1] = <<"rate_limit", events[j][2], events[j][3]>>
    /\ \A j \in DOMAIN events :
          events[j][1] = "rate_limit" =>
              \/ /\ j < Len(events)
                 /\ events[j + 1] = <<"batch", events[j][2], events[j][3]>>
              \/ /\ j = Len(events)
                 /\ pc = "attempt"
                 /\ attempt = 1

C7_Witness ==
    /\ pc = "returned"
    /\ \E j \in DOMAIN events : events[j] = <<"batch", "episodes", 3>>
    /\ Len(events) = 7

(***************************************************************************)
(* Properties of the cache, checked under SpecCache.                       *)
(***************************************************************************)

\* C4: right after addEpisodeToHistory has queued a play with an integer
\* catalog id for (show, season, episode), season and episode known,
\* isEpisodeWatched answers true with the id and without it; right after
\* addMovie has queued a play with an integer catalog id, isMovieWatched
\* answers true for it.  No sync call is needed in between.
C4_WriteThroughAtQueueTime ==
    /\ (/\ last_op.op = "addEpisodeToHistory"
        /\ last_op.tmdb.t = "int"
        /\ last_op.season # None
        /\ last_op.episode # None)
          => /\ isEpisodeWatched(last_op.show, last_op.season, last_op.episode,
                                 last_op.tmdb)
             /\ isEpisodeWatched(last_op.show, last_op.season, last_op.episode, NoId)
    /\ (last_op.op = "addMovie" /\ last_op.tmdb.t = "int")
          => isMovieWatched(last_op.tmdb)

C4_Witness ==
    /\ last_op = [op |-> "addEpisodeToHistory", show |-> <<"A", ":", "b">>,
                  season |-> 1, episode |-> 1, tmdb |-> IntId(2)]
    /\ calls = 1
    /\ episodes = <<Play(IntId(2), 1)>>
    /\ watched_episodes = generate_episode_keys(<<"A", ":", "b">>, 1, 1)
    /\ watched_episode_tmdb_ids = {2}

\* C8: when the try block of cacheWatchedHistory raised, the alias-key set,
\* the episode identifier set and the movie identifier set are all empty at
\* the time cacheWatchedHistory returns.  Stated for the call the constructor
\* makes: the first call on the instance, nothing queued yet.
C8_CachesEmptyAfterFailedBuild ==
    (/\ pc = "ready"
     /\ last_op.op = "cacheWatchedHistory"
     /\ build_failed
     /\ calls = 1
     /\ movies = <<>>
     /\ episodes = <<>>)
       => /\ watched_episodes = {}
          /\ watched_episode_tmdb_ids = {}
          /\ watched_movies = {}

\* C9: the episode history is paged by at most one invocation of
\* hydrate_tmdb_ids_from_history per instance: once the paging invocation has
\* ended, by a short page or by an exception, the flag is set, and a call
\* that finds the flag set requests nothing.
C9_EpisodeBackfillAtMostOnce ==
    /\ ep_backfills <= 1
    /\ (ep_backfills >= 1 /\ pc # "hydrate_episodes") => tmdb_history_hydrated
    /\ ep_outcome # "none" => tmdb_history_hydrated
    /\ ep_skipped => (tmdb_history_hydrated /\ ep_backfills = 1)
    /\ (pc = "hydrate_episodes" /\ page > 1) => ep_backfills = 1

C9_Witness ==
    /\ pc = "ready"
    /\ last_op.op = "cacheWatchedHistory"
    /\ calls = 1
    /\ ep_outcome = "raised"
    /\ ep_skipped
    /\ ep_backfills = 1

\* C10: the movie history is paged by at most one invocation of
\* hydrate_movie_ids_from_history per instance.
C10_MovieBackfillAtMostOnce == mv_backfills <= 1

\* C11: when the shows loop counted N > 0 watched episodes, cacheWatchedHistory
\* calls the episode backfill on the coverage rule exactly when
\* 10 * |identifier set| < 6 * N, the set as it stands after the loop.
C11_CoverageRule ==
    [][(/\ pc = "cache_shows"
        /\ pc' \in {"cache_movies", "hydrate_episodes"}
        /\ total_watched_episodes > 0)
          => ((ep_site' = "coverage")
                <=> (10 * Cardinality(watched_episode_tmdb_ids)
                        < 6 * total_watched_episodes))]_vars

C11_Witness ==
    /\ pc = "hydrate_episodes"
    /\ ep_site = "coverage"
    /\ page = 1
    /\ ep_backfills = 0
    /\ total_watched_episodes = 2
    /\ Cardinality(watched_episode_tmdb_ids) = 1

\* C12: when the episode identifier set is empty at the end of the build (the
\* tail called the episode backfill), both history endpoints are queried by
\* this cacheWatchedHistory, whatever the movie identifier set holds.  Stated
\* for the first call on the instance.
C12_TailBackfillsBoth ==
    (/\ pc = "ready"
     /\ last_op.op = "cacheWatchedHistory"
     /\ calls = 1
     /\ ep_site = "tail")
       => (ep_backfills = 1 /\ mv_backfills = 1)

\* C12, amended: at the end of the build the episode backfill is called
\* exactly when the episode identifier set is empty, and it pages the episode
\* history only if the flag is not set yet; the movie history is paged
\* exactly when the movie identifier set is empty.
C12_TailBackfillsEach ==
    [][/\ pc = "cache_tail"
          => /\ (ep_site' = "tail") <=> (watched_episode_tmdb_ids = {})
             /\ (pc' = "hydrate_episodes")
                   <=> (watched_episode_tmdb_ids = {} /\ ~tmdb_history_hydrated)
       /\ pc = "cache_tail_movies"
          => ((pc' = "hydrate_movies") <=> (watched_movies = {}))]_vars

C12_Witness ==
    /\ pc = "ready"
    /\ last_op.op = "cacheWatchedHistory"
    /\ calls = 1
    /\ ep_site = "tail"
    /\ ep_backfills = 1
    /\ mv_backfills = 0
    /\ watched_movies # {}

\* C13: isEpisodeWatched answers true whenever the catalog id it is given is
\* in the episode identifier set, for every show, season and episode number
\* (the unknown one included), whether or not an alias key is cached.
C13_IdentifierHitIsWatched ==
    \A show_name \in Titles, season_number \in Seasons,
       episode_number \in EpisodeNumbers \cup {None}, tmdb_id \in RawIds :
       (tmdb_id.t = "int" /\ tmdb_id.v \in watched_episode_tmdb_ids)
          => isEpisodeWatched(show_name, season_number, episode_number, tmdb_id)

C13_Witness ==
    /\ watched_episode_tmdb_ids = {2}
    /\ watched_episodes = {}
    /\ isEpisodeWatched(<<"a">>, 1, 1, IntId(2))
    /\ ~isEpisodeWatched(<<"a">>, 1, 1, NoId)

\* C14: isEpisodeWatched answers false whenever the episode number is None,
\* whatever the alias-key set and the identifier set hold.
C14_FalseWhenEpisodeUnknown ==
    \A show_name \in Titles, season_number \in Seasons, tmdb_id \in RawIds :
       ~isEpisodeWatched(show_name, season_number, None, tmdb_id)

\* C14, amended: isEpisodeWatched answers false whenever the episode number is
\* None and it is given no catalog id of the identifier set, whatever the
\* alias-key set holds.
C14_FalseWhenEpisodeUnknownAndNoIdHit ==
    \A show_name \in Titles, season_number \in Seasons, tmdb_id \in RawIds :
       ~(tmdb_id.t = "int" /\ tmdb_id.v \in watched_episode_tmdb_ids)
          => ~isEpisodeWatched(show_name, season_number, None, tmdb_id)

C14_Witness ==
    /\ watched_episode_tmdb_ids = {1}
    /\ <<<<"a">>, 1, 1>> \in watched_episodes
    /\ isEpisodeWatched(<<"a">>, 1, 1, NoId)
    /\ ~isEpisodeWatched(<<"a">>, 1, None, NoId)
    /\ ~isEpisodeWatched(<<"a">>, 1, None, IntId(2))

(***************************************************************************)
(* Properties of _generate_episode_keys, checked under SpecKeys.           *)
(***************************************************************************)
RECURSIVE UpToFirstColon(_)
UpToFirstColon(t) ==
    IF t = <<>> \/ Head(t) = ":" THEN <<>> ELSE <<Head(t)>> \o UpToFirstColon(Tail(t))

RECURSIVE AlnumOnly(_)
AlnumOnly(t) ==
    IF t = <<>> THEN <<>>
    ELSE IF IsLowerAlnum(Head(t)) THEN <<Head(t)>> \o AlnumOnly(Tail(t))
    ELSE AlnumOnly(Tail(t))

\* words of [a-z0-9] separated by single spaces
IsNormalized(n) ==
    /\ \A j \in DOMAIN n : IsLowerAlnum(n[j]) \/ n[j] = " "
    /\ n # <<>> => (n[1] # " " /\ n[Len(n)] # " ")
    /\ \A j \in 1 .. (Len(n) - 1) : ~(n[j] = " " /\ n[j + 1] = " ")

\* C15: _generate_episode_keys(title, s, e) returns 1 to 3 keys, each paired
\* with (s, e): the lowercase title always; the lowercase title cut at its
\* first colon (and stripped) when that is non-empty and different; the
\* normalized title (words of [a-z0-9] single-spaced) when that is non-empty
\* and different from both.  "The Show: Special Edition", 1, 2 gives the keys
\* of "the show: special edition", "the show", "the show special edition".
C15_EpisodeKeys ==
    key_args # NoArgs =>
       LET s == key_args.season
           e == key_args.episode
           base == lower(key_args.title)
           alias == strip(UpToFirstColon(base))
           titles == {k[1] : k \in key_result}
           others == titles \ {base, alias}
       IN /\ Cardinality(key_result) \in 1 .. 3
          /\ \A k \in key_result : k[2] = s /\ k[3] = e
          /\ base \in titles
          /\ alias \in titles <=> (alias # <<>> \/ alias = base)
          /\ Cardinality(others) <= 1
          /\ \A n \in others :
                /\ n # <<>>
                /\ IsNormalized(n)
                /\ AlnumOnly(n) = AlnumOnly(base)
          /\ (others = {} /\ AlnumOnly(base) # <<>>)
                => \E n \in {base, alias} : IsNormalized(n) /\ AlnumOnly(n) = AlnumOnly(base)
          /\ (key_args.title = TheShowSpecialEdition /\ s = 1 /\ e = 2)
                => key_result =
                     {<<<<"t", "h", "e", " ", "s", "h", "o", "w", ":", " ",
                        "s", "p", "e", "c", "i", "a", "l", " ", "e", "d",
                        "i", "t", "i", "o", "n">>, 1, 2>>,
                      <<<<"t", "h", "e", " ", "s", "h", "o", "w">>, 1, 2>>,
                      <<<<"t", "h", "e", " ", "s", "h", "o", "w", " ", "s",
                        "p", "e", "c", "i", "a", "l", " ", "e", "d", "i",
                        "t", "i", "o", "n">>, 1, 2>>}

C15_Witness ==
    /\ key_args = [title |-> TheShowSpecialEdition, season |-> 1, episode |-> 2]
    /\ Cardinality(key_result) = 3

(***************************************************************************)
(* Claims about NetflixTvHistory, checked under SpecHistory.               *)
(***************************************************************************)
\* A date that passes the guards of the entry handlers and that addWatchedDate parses.
ValidDate(d) == ~DateRejected(d) /\ ParseDate(d) # NoTime

\* The step is a call addEntry(title, date).
AddEntryStep == entries_added' = entries_added + 1

\* The entities without their timestamps.
EpisodeNames(season) == [x \in DOMAIN season.episodes |-> season.episodes[x].name]
SeasonShape(season) ==
    [number |-> season.number, name |-> season.name, episodes |-> EpisodeNames(season)]
ShowShape(show) ==
    [name |-> show.name,
     seasons |-> [x \in DOMAIN show.seasons |-> SeasonShape(show.seasons[x])]]
Shape(list) == [x \in DOMAIN list |-> ShowShape(list[x])]

\* Where the episode (show name, season number, episode name) is stored.
EpisodePlaces(list, showName, seasonNumber, episodeName) ==
    {p \in {<<a, b, c>> : a \in DOMAIN list, b \in 1 .. MaxEntries + 1, c \in 1 .. MaxEntries + 1} :
        /\ list[p[1]].name = showName
        /\ p[2] \in DOMAIN list[p[1]].seasons
        /\ list[p[1]].seasons[p[2]].number = seasonNumber
        /\ p[3] \in DOMAIN list[p[1]].seasons[p[2]].episodes
        /\ list[p[1]].seasons[p[2]].episodes[p[3]].name = episodeName}

EpisodeAt(list, p) == list[p[1]].seasons[p[2]].episodes[p[3]]

\* C16: when addEntry is given a title that matches the first pattern and
\* a valid date, the history afterwards holds exactly one Show of the
\* extracted name, in it exactly one Season of the extracted number, and in
\* that exactly one Episode of the extracted name, which holds the date's
\* timestamp; on an empty history these three are all there is; and when
\* the episode was already there, the call creates no Show, Season, Episode
\* or Movie: it only adds the timestamp.
C16_PatternOneCreatesOnce ==
    [][(AddEntryStep /\ parsed[last_entry'.title].pattern = 1 /\ ValidDate(last_entry'.date))
        => LET r == parsed[last_entry'.title]
               before == EpisodePlaces(shows, r.showName, r.seasonNumber, r.episodeTitle)
               after == EpisodePlaces(shows', r.showName, r.seasonNumber, r.episodeTitle)
           IN /\ Cardinality({x \in DOMAIN shows' : shows'[x].name = r.showName}) = 1
              /\ \A x \in DOMAIN shows' : shows'[x].name = r.showName =>
                    Cardinality({y \in DOMAIN shows'[x].seasons :
                                    shows'[x].seasons[y].number = r.seasonNumber}) = 1
              /\ Cardinality(after) = 1
              /\ \A p \in after :
                    ParseDate(last_entry'.date) \in EpisodeAt(shows', p).watchedAt
              /\ history_movies' = history_movies
              /\ shows = <<>> =>
                    /\ Len(shows') = 1
                    /\ Len(shows'[1].seasons) = 1
                    /\ Len(shows'[1].seasons[1].episodes) = 1
              /\ before # {} =>
                    /\ Shape(shows') = Shape(shows)
                    /\ after = before
                    /\ \A p \in before :
                          EpisodeAt(shows', p).watchedAt =
                             EpisodeAt(shows, p).watchedAt \cup {ParseDate(last_entry'.date)}
                    /\ \A x \in DOMAIN shows, y \in 1 .. MaxEntries + 1, z \in 1 .. MaxEntries + 1 :
                          (/\ y \in DOMAIN shows[x].seasons
                           /\ z \in DOMAIN shows[x].seasons[y].episodes
                           /\ <<x, y, z>> \notin before)
                          => shows'[x].seasons[y].episodes[z] = shows[x].seasons[y].episodes[z]
      ]_vars

\* A second call for the same episode of season 1, spelled "01", has been made.
C16_Witness ==
    /\ last_entry.op = "addEntry"
    /\ last_entry.title = <<"A">> \o Sep \o <<"S", " ", "01">> \o Sep \o <<"e">>
    /\ ValidDate(last_entry.date)
    /\ Len(shows) = 1
    /\ Len(shows[1].seasons) = 1
    /\ shows[1].seasons[1].number = 1
    /\ Len(shows[1].seasons[1].episodes) = 1
    /\ shows[1].seasons[1].episodes[1].adds = 2
    /\ Cardinality(shows[1].seasons[1].episodes[1].watchedAt) = 2

NoTwo(list, Same(_, _)) ==
    \A x \in DOMAIN list, y \in DOMAIN list : Same(list[x], list[y]) => x = y

SameName(a, b) == a.name = b.name
SameNumber(a, b) == a.number = b.number
SameSeasonName(a, b) == a.name # NoSeasonName /\ a.name = b.name

\* C17: after any sequence of addEntry and resolveAmbiguousEntries calls no
\* two Shows have the same name, no two Movies have the same name, no two
\* Seasons of a Show have the same number or the same non-null name, and
\* no two Episodes of a Season have the same name.
C17_NoDuplicateEntities ==
    /\ NoTwo(shows, SameName)
    /\ NoTwo(history_movies, SameName)
    /\ \A x \in DOMAIN shows :
          /\ NoTwo(shows[x].seasons, SameNumber)
          /\ NoTwo(shows[x].seasons, SameSeasonName)
          /\ \A y \in DOMAIN shows[x].seasons :
                NoTwo(shows[x].seasons[y].episodes, SameName)

\* Two pending records of one episode went through resolution.
C17_Witness ==
    /\ last_entry.op = "resolveAmbiguousEntries"
    /\ entries_added = MaxEntries
    /\ Len(shows) = 1
    /\ Len(shows[1].seasons) = 1
    /\ Len(shows[1].seasons[1].episodes) = 1
    /\ shows[1].seasons[1].episodes[1].adds = 2
    /\ classification_stats.ambiguous_resolved = 2

\* Every Movie and every Episode of the history.
Items ==
    Range(history_movies) \cup
    UNION {UNION {Range(shows[x].seasons[y].episodes) : y \in DOMAIN shows[x].seasons}
              : x \in DOMAIN shows}

\* C18: the timestamp set of every Episode and Movie is the set of the
\* timestamps of the valid dates that were added to it, one for each
\* distinct date however often and in whichever spelling it was added.
C18_TimestampsAreASet ==
    \A item \in Items :
        item.watchedAt = {ParseDate(d) : d \in item.added} \ {NoTime}

\* One date was added twice to one item, which holds one timestamp.
C18_Witness ==
    \E item \in Items :
        /\ item.adds = 2
        /\ Cardinality(item.added) = 1
        /\ Cardinality(item.watchedAt) = 1

\* The step is a call resolveAmbiguousEntries().
ResolveStep == last_entry'.op = "resolveAmbiguousEntries" /\ entries_added' = entries_added

\* The show name of the pending record is confirmed, or shared by two pending records.
Confirmed(r) ==
    \/ r.show_name \in known_show_names
    \/ Cardinality({x \in DOMAIN ambiguous_entries :
                       ambiguous_entries[x].show_name = r.show_name}) >= 2

TimestampsOf(list, name) == UNION {item.watchedAt : item \in {i1 \in Range(list) : i1.name = name}}

\* C19 as stated: resolveAmbiguousEntries makes of every pending record
\* whose show name is confirmed or shared by two pending records an episode
\* of season 1 of that show, and of every other pending record a Movie
\* named by the whole title.
C19_EveryPendingRecordResolved ==
    [][ResolveStep =>
        \A r \in Range(ambiguous_entries) :
            IF Confirmed(r)
            THEN EpisodePlaces(shows', r.show_name, 1, r.episode_title) # {}
            ELSE \E x \in DOMAIN history_movies' : history_movies'[x].name = r.title
      ]_vars

\* C19, amended: resolveAmbiguousEntries stores the timestamp of a pending
\* record that has a valid date in the episode of its title in season 1 of
\* its show name, and in no Movie, if the show name is confirmed or shared
\* by two pending records; otherwise it stores it in the Movie named by
\* the whole title and creates no Show of the show name.  Every Movie it
\* creates is named by the whole title of a pending record.
C19_ValidPendingRecordResolved ==
    [][ResolveStep =>
        /\ \A r \in Range(ambiguous_entries) :
              ValidDate(r.date) =>
                 IF Confirmed(r)
                 THEN /\ \E p \in EpisodePlaces(shows', r.show_name, 1, r.episode_title) :
                            ParseDate(r.date) \in EpisodeAt(shows', p).watchedAt
                      /\ TimestampsOf(history_movies', r.title) =
                            TimestampsOf(history_movies, r.title)
                 ELSE /\ ParseDate(r.date) \in TimestampsOf(history_movies', r.title)
                      /\ \A x \in DOMAIN shows' : shows'[x].name # r.show_name
        /\ \A x \in DOMAIN history_movies' :
              (\A y \in DOMAIN history_movies : history_movies[y].name # history_movies'[x].name)
              => \E r \in Range(ambiguous_entries) :
                    /\ history_movies'[x].name = r.title
                    /\ r.title # r.show_name
                    /\ ~Confirmed(r)
        /\ ambiguous_entries' = <<>>
      ]_vars

\* A resolution has made an episode of the one pending record, whose show
\* name the record added after it had confirmed.
C19_Witness ==
    /\ last_entry.op = "resolveAmbiguousEntries"
    /\ entries_added = 2
    /\ classification_stats.ambiguous_resolved = 1
    /\ history_movies = <<>>
    /\ Len(shows) = 1
    /\ \E p \in EpisodePlaces(shows, <<"A">>, 1, <<"f">>) :
          EpisodeAt(shows, p).adds = 1 /\ EpisodeAt(shows, p).watchedAt # {}
    /\ EpisodePlaces(shows, <<"A">>, 2, <<"e">>) # {}

\* What a history holds, whatever the order of its lists: the Shows, the
\* Episodes with their Show and Season, the Movies, the confirmed names and
\* the counters.
Content(h) ==
    [shows |-> {h.shows[x].name : x \in DOMAIN h.shows},
     episodes |-> UNION {UNION {{<<h.shows[x].name, h.shows[x].seasons[y].number,
                                   h.shows[x].seasons[y].name, item>> :
                                    item \in Range(h.shows[x].seasons[y].episodes)}
                                 : y \in DOMAIN h.shows[x].seasons}
                            : x \in DOMAIN h.shows},
     movies |-> Range(h.movies),
     known_show_names |-> h.known_show_names,
     classification_stats |-> h.classification_stats]

\* C20: whichever way the pending list is ordered when
\* resolveAmbiguousEntries is called, the call leaves the same Shows,
\* Seasons, Episodes, Movies and timestamps as it does on the list as it is.
C20_ResolutionIgnoresOrder ==
    [][ResolveStep =>
        \A f \in Permutations(DOMAIN ambiguous_entries) :
            Content(resolved([History EXCEPT !.ambiguous_entries =
                                [x \in DOMAIN ambiguous_entries |-> ambiguous_entries[f[x]]]]))
              = Content(History')
      ]_vars

\* Two pending records of one show, with different titles, were resolved
\* into two episodes.
C20_Witness ==
    /\ last_entry.op = "resolveAmbiguousEntries"
    /\ classification_stats.ambiguous_resolved = 2
    /\ history_movies = <<>>
    /\ Len(shows) = 1
    /\ Len(shows[1].seasons) = 1
    /\ Len(shows[1].seasons[1].episodes) = 2
    /\ \A x \in 1 .. 2 : shows[1].seasons[1].episodes[x].watchedAt # {}

(***************************************************************************)
(* The Movies and Episodes of a history with the place of each: a Movie    *)
(* under its name, an Episode under its Show, the number of its Season and *)
(* its name.                                                               *)
(***************************************************************************)
Placed(h) ==
    [x \in DOMAIN h.movies |-> [show |-> <<>>, number |-> 0, item |-> h.movies[x]]]
    \o Flatten([x \in DOMAIN h.shows |->
          Flatten([y \in DOMAIN h.shows[x].seasons |->
              [z \in DOMAIN h.shows[x].seasons[y].episodes |->
                  [show |-> h.shows[x].name, number |-> h.shows[x].seasons[y].number,
                   item |-> h.shows[x].seasons[y].episodes[z]]]])])

PlaceOf(e) == <<e.show, e.number, e.item.name>>
Places(h) == {PlaceOf(e) : e \in Range(Placed(h))}

\* The addWatchedDate calls that stored a timestamp at a place, so far.
RECURSIVE StoredIn(_, _)
StoredIn(placed, place) ==
    IF placed = <<>> THEN 0
    ELSE (IF PlaceOf(Head(placed)) = place THEN Head(placed).item.stored ELSE 0)
         + StoredIn(Tail(placed), place)

StoredAt(h, place) == StoredIn(Placed(h), place)

\* The places that hold the timestamp.
Holding(h, time) == {PlaceOf(e) : e \in {e1 \in Range(Placed(h)) : time \in e1.item.watchedAt}}

\* The places at which the step stored a timestamp.
Gained == {place \in Places(History') : StoredAt(History', place) # StoredAt(History, place)}

\* The pending records of the list that have a valid date.
ValidPending(entries) == {x \in DOMAIN entries : ValidDate(entries[x].date)}

RECURSIVE SumOver(_, _)
SumOver(f, S) ==
    IF S = {} THEN 0
    ELSE LET x == CHOOSE y \in S : TRUE IN f[x] + SumOver(f, S \ {x})

\* C21: a record that has a valid date is either stored by addEntry at
\* exactly one place, an Episode or a Movie, which then holds its
\* timestamp, or appended to the pending list and stored nowhere;
\* resolveAmbiguousEntries stores each pending record that has a valid date
\* at exactly one place and empties the list, so that a second call
\* changes nothing.
C21_ClassifiedExactlyOnce ==
    [][/\ (AddEntryStep /\ ValidDate(last_entry'.date)) =>
            \/ /\ ambiguous_entries' = ambiguous_entries
               /\ Cardinality(Gained) = 1
               /\ \A place \in Gained :
                     /\ StoredAt(History', place) = StoredAt(History, place) + 1
                     /\ place \in Holding(History', ParseDate(last_entry'.date))
            \/ /\ Len(ambiguous_entries') = Len(ambiguous_entries) + 1
               /\ Gained = {}
       /\ ResolveStep =>
            /\ ambiguous_entries' = <<>>
            /\ \A place \in Places(History') : StoredAt(History', place) >= StoredAt(History, place)
            /\ SumOver([place \in Gained |->
                           StoredAt(History', place) - StoredAt(History, place)], Gained)
                  = Cardinality(ValidPending(ambiguous_entries))
            /\ \A x \in ValidPending(ambiguous_entries) :
                  Gained \cap Holding(History', ParseDate(ambiguous_entries[x].date)) # {}
            /\ ambiguous_entries = <<>> => History' = History
      ]_vars

\* Both records have been stored, one by addEntry in an Episode and one by
\* the resolution in a Movie.
C21_Witness ==
    /\ last_entry.op = "resolveAmbiguousEntries"
    /\ ambiguous_entries = <<>>
    /\ entries_added = 2
    /\ classification_stats.ambiguous_resolved = 0
    /\ Len(history_movies) = 1
    /\ history_movies[1].stored = 1
    /\ history_movies[1].name = <<"B">> \o Sep \o <<"e">>
    /\ Len(shows) = 1
    /\ StoredAt(History, <<<<"A">>, 2, <<"e">>>>) = 1

\* C22: when addEntry finds the heuristic uncertain about a one-colon
\* title, it appends one pending record made of the title, the two parts
\* and the date, whatever the date is, and changes nothing else: not the
\* Shows, not the Movies, not the confirmed names, not a timestamp.
C22_UncertainOnlyQueues ==
    [][(/\ AddEntryStep
        /\ parsed[last_entry'.title].pattern = 5
        /\ isLikelyTvShow(known_show_names, parsed[last_entry'.title].showName,
                          parsed[last_entry'.title].episodeTitle) = "None")
        => /\ ambiguous_entries' =
                 Append(ambiguous_entries,
                        [title |-> last_entry'.title,
                         show_name |-> parsed[last_entry'.title].showName,
                         episode_title |-> parsed[last_entry'.title].episodeTitle,
                         date |-> last_entry'.date])
           /\ shows' = shows
           /\ history_movies' = history_movies
           /\ known_show_names' = known_show_names
           /\ classification_stats' = classification_stats
      ]_vars

\* "A: e" was queued beside the Movie that the record before it had made.
C22_Witness ==
    /\ last_entry.op = "addEntry"
    /\ last_entry.title = <<"A">> \o Sep \o <<"e">>
    /\ ValidDate(last_entry.date)
    /\ Len(ambiguous_entries) = 1
    /\ ambiguous_entries[1].title = last_entry.title
    /\ Len(history_movies) = 1
    /\ shows = <<>>

\* C23: addEntry stores a one-colon record "A: B" that has a valid date as
\* the episode B of season 1 of show A if A is a confirmed show name,
\* whatever indicators the title holds; otherwise as that episode if B
\* holds an episode indicator, even when "A: B" holds a movie indicator;
\* otherwise as the Movie "A: B" if "A: B" holds a movie indicator;
\* otherwise it stores it nowhere and queues it.
C23_HeuristicPriority ==
    [][(AddEntryStep /\ parsed[last_entry'.title].pattern = 5 /\ ValidDate(last_entry'.date))
        => LET A == parsed[last_entry'.title].showName
               B == parsed[last_entry'.title].episodeTitle
           IN IF A \in known_show_names THEN Gained = {<<A, 1, B>>}
              ELSE IF episode_patterns(B) THEN Gained = {<<A, 1, B>>}
              ELSE IF movie_patterns(A \o Sep \o B) THEN Gained = {<<<<>>, 0, last_entry'.title>>}
              ELSE Gained = {} /\ Len(ambiguous_entries') = Len(ambiguous_entries) + 1
      ]_vars

\* "A: Pilot Uncut" was stored as an episode although it holds a movie
\* indicator, and then "A: Uncut" was, A being a confirmed name by then.
C23_Witness ==
    /\ last_entry.op = "addEntry"
    /\ last_entry.title = <<"A">> \o Sep \o <<"Uncut">>
    /\ history_movies = <<>>
    /\ ambiguous_entries = <<>>
    /\ StoredAt(History, <<<<"A">>, 1, <<"Pilot", " ", "Uncut">>>>) = 1
    /\ StoredAt(History, <<<<"A">>, 1, <<"Uncut">>>>) = 1

\* The dates of the rows that are empty, a header token or without a digit.
RejectedDates == {"", "Date", "DATUM", "n/a"}

\* What resolveAmbiguousEntries may create for the pending records whose
\* date is not one of those: their show names, and the places of their
\* episodes and Movies.
Admitted(entries) == {x \in DOMAIN entries : entries[x].date \notin RejectedDates}

\* C24: addEntry with a date that is empty, a header token in any letter
\* case or without a digit creates no Show, Season, Episode or Movie and
\* confirms no show name; and whatever resolveAmbiguousEntries creates or
\* confirms, it creates or confirms for a pending record whose date is
\* none of these.
C24_RejectedDatesCreateNothing ==
    [][/\ (AddEntryStep /\ last_entry'.date \in RejectedDates) =>
            /\ shows' = shows
            /\ history_movies' = history_movies
            /\ known_show_names' = known_show_names
       /\ ResolveStep =>
            /\ \A name \in known_show_names' \ known_show_names :
                  \E x \in Admitted(ambiguous_entries) : ambiguous_entries[x].show_name = name
            /\ \A x \in DOMAIN shows' :
                  (\A y \in DOMAIN shows : shows[y].name # shows'[x].name)
                  => \E z \in Admitted(ambiguous_entries) :
                        ambiguous_entries[z].show_name = shows'[x].name
            /\ \A place \in Places(History') \ Places(History) :
                  \E x \in Admitted(ambiguous_entries) :
                     \/ place = <<ambiguous_entries[x].show_name, 1,
                                  ambiguous_entries[x].episode_title>>
                     \/ place = <<<<>>, 0, ambiguous_entries[x].title>>
            /\ Admitted(ambiguous_entries) = {} => Shape(shows') = Shape(shows)
      ]_vars

\* Of two pending records of show A the resolution dropped one before any
\* addWatchedDate call, and made an episode of the other.
C24_Witness ==
    /\ last_entry.op = "resolveAmbiguousEntries"
    /\ classification_stats.ambiguous_resolved = 2
    /\ \A item \in Items : item.adds = 1
    /\ Len(shows) = 1
    /\ Cardinality(Places(History)) = 1
    /\ StoredAt(History, <<<<"A">>, 1, <<"f">>>>) = 1

\* The dates of the rows that hold a digit and that no format parses.
MalformedDates == {"31.02.23"}

\* C25: a record whose date holds a digit but cannot be parsed leaves no
\* Show, Season, Episode or Movie behind that was not there before,
\* whether addEntry takes it down the TV path or down the movie path.
C25_MalformedDateCreatesNothing ==
    [][(AddEntryStep /\ last_entry'.date \in MalformedDates)
        => /\ Shape(shows') = Shape(shows)
           /\ Places(History') = Places(History)
      ]_vars

\* C26: addEntry stores a record "A: B: C" of the fourth pattern that has a
\* valid date in a Season of show A whose name is B, whatever Seasons the
\* show has: the episode C of that Season holds the timestamp.
C26_SeasonByName ==
    [][(AddEntryStep /\ parsed[last_entry'.title].pattern = 4 /\ ValidDate(last_entry'.date))
        => LET r == parsed[last_entry'.title]
           IN \E x \in DOMAIN shows' :
                 /\ shows'[x].name = r.showName
                 /\ \E y \in DOMAIN shows'[x].seasons :
                       /\ shows'[x].seasons[y].name = r.seasonName
                       /\ \E item \in Range(shows'[x].seasons[y].episodes) :
                             /\ item.name = r.episodeTitle
                             /\ ParseDate(last_entry'.date) \in item.watchedAt
      ]_vars

(***************************************************************************)
(* Claims about the retries and the accounting of sync(), checked under    *)
(* SpecSync.                                                               *)
(***************************************************************************)
\* The step is a call of Trakt["sync/history"].add.
SubmitStep == pc = "attempt" /\ last_submit' # last_submit

\* C27: no batch is submitted more than MAX_RETRY_ATTEMPTS times; the first
\* submission of a batch is its attempt 1, an attempt n > 1 follows
\* attempt n - 1 of the same batch, which raised, and no batch that got a
\* response is submitted again.
C27_AtMostMaxAttempts ==
    [][SubmitStep =>
        LET batch == <<last_submit'.kind, last_submit'.batch>>
        IN /\ last_submit'.attempt \in 1 .. MAX_RETRY_ATTEMPTS
           /\ batch \notin responded
           /\ batch \notin exhausted
           /\ IF last_submit'.attempt = 1
              THEN <<last_submit.kind, last_submit.batch>> # batch
              ELSE /\ <<last_submit.kind, last_submit.batch>> = batch
                   /\ last_submit.attempt = last_submit'.attempt - 1
      ]_vars

\* A batch got its response at the last attempt allowed.
C27_Witness ==
    /\ last_submit.attempt = MAX_RETRY_ATTEMPTS
    /\ last_submit.kind = "episodes"
    /\ <<last_submit.kind, last_submit.batch>> \in responded
    /\ <<"movies", 1>> \in exhausted

(***************************************************************************)
(* The steps of the retry loop that the throttle counter depends on.       *)
(***************************************************************************)
RaiseStep == pc = "attempt" /\ last_error'.raised
FatalRaise ==
    /\ consecutive_auth_failures' = consecutive_auth_failures + 1
    /\ FatalAuth(consecutive_auth_failures')
SuccessStep == pc = "batch_result" /\ Truthy(batch_outcome)
RateLimitStep == pc = "loop" /\ pc' = "attempt"

\* The counter over a successful batch and the delay at the rate-limit step:
\* zero after the batch; the baseline batch delay (in half seconds) with no
\* rate limit counted, and with n > 0 counted the larger of the baseline
\* and rate-limit delay * (1 + n/2); never smaller for a larger n.
ResetAndDelay ==
    /\ SuccessStep => consecutive_rate_limits' = 0
    /\ RateLimitStep =>
          LET n == consecutive_rate_limits
              scaled == rate_limit_delay * (2 + n)
          IN /\ n = 0 => min_delay' = 2 * batch_delay
             /\ n > 0 => /\ min_delay' >= 2 * batch_delay
                         /\ min_delay' >= scaled
                         /\ min_delay' \in {2 * batch_delay, scaled}
             /\ \A m \in 0 .. n :
                   extended_delay(batch_delay, m) <= min_delay'

\* C28 as stated: every attempt that fails with a throttling-class error
\* (429 or "rate" in its text) increases the consecutive-throttle counter by
\* exactly one; every successful batch resets it to zero; the delay enforced
\* at the rate-limit step is the baseline for n = 0 and
\* max(batch delay, rate-limit delay * (1 + n/2)) for n > 0, monotone in n.
C28_EveryThrottleCounted ==
    [][/\ RaiseStep /\ IsRateLimit(last_error') =>
             consecutive_rate_limits' = consecutive_rate_limits + 1
       /\ ResetAndDelay
      ]_vars

\* C28, amended: the same, except that a throttling-class failure which is
\* also the authentication failure reaching the fatal threshold leaves the
\* counter as it is.
C28_ThrottleEscalation ==
    [][/\ RaiseStep /\ IsRateLimit(last_error') =>
             consecutive_rate_limits' =
                 IF FatalRaise THEN consecutive_rate_limits
                               ELSE consecutive_rate_limits + 1
       /\ ResetAndDelay
      ]_vars

\* A batch started after enough consecutive rate limits for the scaled delay
\* to exceed the baseline, following a batch that a success had reset.
C28_Witness ==
    /\ pc = "attempt"
    /\ attempt = 1
    /\ consecutive_rate_limits > 0
    /\ min_delay = rate_limit_delay * (2 + consecutive_rate_limits)
    /\ min_delay > 2 * batch_delay
    /\ responded # {}

(***************************************************************************)
(* The summary of syncToTrakt and main over the result of sync().          *)
(***************************************************************************)
\* max(0, movie_count - added_movies - failed_movies)
skipped_by_trakt_IgnoresFailed(count, added, failed) == Max(0, count - added)
skipped_by_trakt(count, added, failed) == Max(0, count - added - failed)

\* C29: when sync() has returned, for each kind the queued plays are the
\* plays the result counts as added, plus those it counts as failed, plus
\* the duplicates rejected by the remote, which the summary computes as
\* the remainder; none of the four counts is negative. The remote reports
\* at most as many added items as the batch it answers holds.
C29_Accounting ==
    pc = "returned" =>
        \A k \in Kinds :
            LET attempted == Len(Pending(k))
                added == result.added[k]
                failed == result.failed[k]
                duplicates == skipped_by_trakt(attempted, added, failed)
            IN /\ attempted = added + duplicates + failed
               /\ duplicates = attempted - added - failed
               /\ attempted >= 0 /\ added >= 0 /\ failed >= 0 /\ duplicates >= 0

\* A run over several movie batches: one answered as added, one answered
\* with nothing added, one failed after the last attempt.
C29_Witness ==
    /\ pc = "returned"
    /\ ~dry_run
    /\ result.added.movies > 0
    /\ result.failed.movies > 0
    /\ skipped_by_trakt(Len(movies), result.added.movies, result.failed.movies) > 0

(***************************************************************************)
(* sync() ends: the steps a call has left at most, counted from the batches *)
(* still to come, each of which takes its rate-limit step, at most          *)
(* MAX_RETRY_ATTEMPTS submissions and the handling of its outcome.          *)
(***************************************************************************)
BatchSteps == MAX_RETRY_ATTEMPTS + 2
BatchesFrom(k, from) == CeilDiv(Max(0, Len(Pending(k)) - from), page_size)
\* After the loop of kind k: its return, and for movies the step between
\* the phases, the whole episode phase and its return; then the report.
StepsAfter(k) ==
    IF k = "movies"
    THEN 3 + BatchesFrom("episodes", 0) * BatchSteps + 1
    ELSE 2
StepsLeft ==
    CASE pc = "idle" -> 1 + BatchesFrom("movies", 0) * BatchSteps + StepsAfter("movies")
      [] pc = "loop" -> BatchesFrom(kind, i) * BatchSteps + StepsAfter(kind)
      [] pc = "attempt" -> BatchesFrom(kind, i) * BatchSteps + StepsAfter(kind) - attempt
      [] pc = "batch_result" ->
            BatchesFrom(kind, i) * BatchSteps + StepsAfter(kind) - MAX_RETRY_ATTEMPTS - 1
      [] pc = "between" -> 2 + BatchesFrom("episodes", 0) * BatchSteps + 1
      [] pc = "report" -> 1
      [] OTHER -> 0

\* C30: whatever the remote raises or returns, every step of a sync() call
\* brings it nearer to its end, a batch is submitted at most
\* MAX_RETRY_ATTEMPTS times, an exception of the last attempt is counted as
\* a failed batch and the loop goes on, and the call ends by returning a
\* result with the added and the failed counts of both kinds; before
\* that the call always has a next step.
C30_SyncReturns ==
    /\ [][/\ StepsLeft' < StepsLeft
          /\ StepsLeft' >= 0
          /\ attempt' \in 0 .. MAX_RETRY_ATTEMPTS
          /\ pc = "batch_result" /\ batch_outcome = Raised =>
                /\ pc' = "loop"
                /\ result'.failed[kind] = result.failed[kind] + Len(Slice(Pending(kind), i, page_size))
          /\ StepsLeft' = 0 =>
                /\ pc' = "returned"
                /\ \A k \in Kinds : result'.added[k] \in Nat /\ result'.failed[k] \in Nat
         ]_vars
    /\ [](pc # "returned" => ENABLED NextSync)

\* A call over both kinds that has returned although no batch was ever
\* answered: every batch failed MAX_RETRY_ATTEMPTS times with rate limits
\* and server errors, none with an authentication failure.
C30_Witness ==
    /\ pc = "returned"
    /\ ~dry_run
    /\ responded = {}
    /\ consecutive_auth_failures = 0
    /\ consecutive_rate_limits >= MAX_RETRY_ATTEMPTS
    /\ result.failed.movies = Len(movies) /\ movies # <<>>
    /\ result.failed.episodes = Len(episodes) /\ episodes # <<>>

(***************************************************************************)
(* The history as it grows.                                                *)
(***************************************************************************)
\* Every item of the list `old` is at its position in the list `new`, with
\* the same name and with at least its timestamps.
ItemsKept(old, new) ==
    /\ Len(old) <= Len(new)
    /\ \A x \in DOMAIN old :
          new[x].name = old[x].name /\ old[x].watchedAt \subseteq new[x].watchedAt

SeasonsKept(old, new) ==
    /\ Len(old) <= Len(new)
    /\ \A y \in DOMAIN old :
          /\ new[y].number = old[y].number
          /\ ItemsKept(old[y].episodes, new[y].episodes)

ShowsKept(old, new) ==
    /\ Len(old) <= Len(new)
    /\ \A x \in DOMAIN old :
          /\ new[x].name = old[x].name
          /\ SeasonsKept(old[x].seasons, new[x].seasons)

\* C31: no call removes a Show, a Season, an Episode, a Movie or a
\* timestamp that was there before it; addEntry removes no pending record
\* either, and a call that does is resolveAmbiguousEntries.
C31_HistoryOnlyGrows ==
    [][/\ ShowsKept(shows, shows')
       /\ ItemsKept(history_movies, history_movies')
       /\ AddEntryStep =>
             /\ Len(ambiguous_entries) <= Len(ambiguous_entries')
             /\ SubSeq(ambiguous_entries', 1, Len(ambiguous_entries)) = ambiguous_entries
       /\ Len(ambiguous_entries') < Len(ambiguous_entries) =>
             ResolveStep /\ ambiguous_entries' = <<>>
      ]_vars

\* A Movie with its timestamp, still there after addEntry was called for
\* another movie title with a date that does not parse.
C31_Witness ==
    /\ last_entry.op = "addEntry"
    /\ last_entry.date \in MalformedDates
    /\ parsed[last_entry.title].pattern = 0
    /\ Len(history_movies) = 1
    /\ history_movies[1].name # last_entry.title
    /\ history_movies[1].watchedAt # {}

\* C40: the confirmed show names are the names of the Shows of the history,
\* no more and no fewer; a Movie, created by addEntry or by resolution,
\* brings no name to them.
C40_ConfirmedNamesAreShowNames ==
    known_show_names = {shows[x].name : x \in DOMAIN shows}

\* A history with a Show from one call and a Movie from the other.
C40_Witness ==
    /\ entries_added = MaxEntries
    /\ Len(shows) = 1
    /\ Len(history_movies) = 1
    /\ known_show_names = {shows[1].name}
    /\ history_movies[1].name \notin known_show_names

C33_SuccessResetsAuthFailures ==
    [][SuccessStep => consecutive_auth_failures' = 0]_vars

\* The batches that sync() forms of the list, by its length and the page size.
BatchesOf(lst) ==
    [b \in 1 .. TotalBatches(Len(lst), page_size) |->
        Slice(lst, (b - 1) * page_size, page_size)]

\* C36: no step of sync() changes the pending movie list, the pending
\* episode list, the alias keys, the episode identifiers or the movie
\* identifiers; when a real sync() has returned, the lists are those its
\* batches were formed of, so that a call made then forms the same batches.
C36_SyncKeepsQueuesAndCaches ==
    [][/\ UNCHANGED <<movies, episodes, watched_episodes, watched_episode_tmdb_ids,
                      watched_movies>>
       /\ pc' = "returned" /\ ~dry_run =>
             \A k \in Kinds : formed'[k] = BatchesOf(Pending(k)')
      ]_vars

\* A sync() that has returned after episodes and movies were added.
C36_Witness ==
    /\ pc = "returned"
    /\ ~dry_run
    /\ result.added.movies > 0
    /\ result.added.episodes > 0
    /\ Len(formed.episodes) >= 2
    /\ watched_episode_tmdb_ids # {}

(***************************************************************************)
(* Alias matching, checked under SpecCache.                                *)
(***************************************************************************)
\* The titles isEpisodeWatched is asked about: those fed, and titles that
\* differ from them after the colon, in case and in punctuation.
QueryTitles == Titles \cup {<<"a", ":", "c">>, <<"A", "-", "b">>, <<"c">>}

\* The alphanumeric-normalized lowercase form of a title.
NormalForm(t) == strip(CollapseNonAlnum(lower(t)))

\* The three forms under which a title is keyed.
KeyForms(t) == {lower(t), strip(CutAtColon(lower(t))), NormalForm(t)}

NormalFormOf == [t \in QueryTitles |-> NormalForm(t)]
KeyFormsOf == [t \in QueryTitles |-> KeyForms(t)]

\* C37 as stated: when isEpisodeWatched, called between two other calls on
\* the instance and without an identifier, answers true, the cache was fed
\* an episode of the same season and episode number under a title of the
\* same alphanumeric-normalized lowercase form.
C37_MatchMeansSameNormalForm ==
    pc = "ready" =>
       \A show_name \in QueryTitles, season_number \in Seasons,
          episode_number \in EpisodeNumbers \cup {None} :
          isEpisodeWatched(show_name, season_number, episode_number, NoId)
             => \E f \in fed_episodes :
                   /\ f[2] = season_number /\ f[3] = episode_number
                   /\ NormalFormOf[f[1]] = NormalFormOf[show_name]

\* C37, amended: ... the cache was fed an episode of the same season and
\* episode number under a title that shares a key form with the title asked
\* about: the lowercase title, the lowercase title cut at its first colon,
\* or the alphanumeric-normalized lowercase title of the one is one of
\* these three of the other.
C37_MatchMeansSharedKeyForm ==
    pc = "ready" =>
       \A show_name \in QueryTitles, season_number \in Seasons,
          episode_number \in EpisodeNumbers \cup {None} :
          isEpisodeWatched(show_name, season_number, episode_number, NoId)
             => \E f \in fed_episodes :
                   /\ f[2] = season_number /\ f[3] = episode_number
                   /\ KeyFormsOf[f[1]] \cap KeyFormsOf[show_name] # {}

\* The cache was fed "A:b" only: it answers for "a:c", which shares the
\* text before the colon, and for "A-b", which shares the normalized form,
\* and not for "c".
C37_Witness ==
    /\ pc = "ready"
    /\ fed_episodes = {<<<<"A", ":", "b">>, 1, 1>>}
    /\ isEpisodeWatched(<<"a", ":", "c">>, 1, 1, NoId)
    /\ isEpisodeWatched(<<"A", "-", "b">>, 1, 1, NoId)
    /\ ~isEpisodeWatched(<<"c">>, 1, 1, NoId)
    /\ ~isEpisodeWatched(<<"a", ":", "c">>, 1, None, NoId)

(***************************************************************************)
(* The operations that feed the episode key set: queueing an episode and   *)
(* the build of the cache, with the backfills the build calls.             *)
(***************************************************************************)
NextFeed ==
    \/ addEpisodeToHistory
    \/ cacheWatchedHistory
    \/ CacheEpisode
    \/ CacheCoverage
    \/ CacheMovie
    \/ CacheBuilt
    \/ CacheRaises
    \/ CacheTailEpisodes
    \/ CacheTailMovies
    \/ HydrateEpisodesPage
    \/ HydrateMoviesPage

SpecFeed == InitCache /\ [][NextFeed]_vars

(***************************************************************************)
(* The paging loops of the two backfills, checked under SpecBackfill.      *)
(***************************************************************************)
InBackfill == pc \in {"hydrate_episodes", "hydrate_movies"}

\* The requests a running backfill has left at most: the remote history
\* holds MaxPages pages, of which the last is not full.
PagesLeft == IF InBackfill THEN MaxPages + 1 - page ELSE 0

\* C38: each backfill returns, whatever the remote history of MaxPages pages
\* holds: its first request is for page 1; every step of the loop asks for
\* the page `page` and either goes on to page + 1, when the page came back
\* full, or returns to the caller, when the request raised or the page was
\* empty or shorter than per_page; no identifier leaves either identifier
\* set; the episode backfill returns with the backfilled flag set; the
\* requests left decrease with every step and one more step is possible as
\* long as the loop runs.
C38_BackfillReturns ==
    /\ [][/\ (~InBackfill /\ InBackfill') => page' = 1
          /\ InBackfill =>
                /\ last_request' # NoRequest
                /\ (pc' # pc) <=> \/ last_request'.got = "raised"
                                  \/ last_request'.len = 0
                                  \/ last_request'.len < per_page
                /\ (pc' = pc) => (page' = page + 1 /\ per_page' = per_page /\ ret' = ret)
                /\ (pc' # pc) => pc' = ret
                /\ watched_episode_tmdb_ids \subseteq watched_episode_tmdb_ids'
                /\ watched_movies \subseteq watched_movies'
                /\ (pc = "hydrate_episodes" /\ pc' # pc) => tmdb_history_hydrated'
                /\ PagesLeft' < PagesLeft]_vars
    /\ [](InBackfill => (page >= 1 /\ PagesLeft > 0 /\ ENABLED NextBackfill))

\* An episode backfill called with per_page 2 has returned after a full
\* first page and a second page of one item, with both identifiers cached
\* and the flag set.
C38_Witness ==
    /\ pc = "ready"
    /\ calls = 1
    /\ last_op.op = "hydrate_tmdb_ids_from_history"
    /\ per_page = 2
    /\ last_request = [got |-> "items", len |-> 1]
    /\ watched_episode_tmdb_ids = {1, 2}
    /\ tmdb_history_hydrated

(***************************************************************************)
(* The accounting of processShow, checked under SpecProcess.               *)
(***************************************************************************)
\* C34: between two history episodes and at the end, the episodes processed
\* are as many as the queued unique markers and the three skip counts
\* together, and the queued plays counted are as many as the pending
\* episode list holds.
C34_AccountingAddsUp ==
    /\ total_processed_episodes =
          Cardinality(queued_unique_episode_markers) + skipped_preexisting_snapshot
             + skipped_within_run_duplicates + total_episodes_skipped_no_tmdb
    /\ total_episodes_added = Len(episodes)

\* A step of the episode loop that resolved its episode to a catalog episode.
ResolvedStep ==
    /\ total_processed_episodes' = total_processed_episodes + 1
    /\ last_processed'.matched

\* The episode was resolved like one that this run has queued before: to the
\* same catalog identifier, or to the same show, season and episode number.
QueuedBefore(p) ==
    \E q \in queued_log :
       \/ q.tmdb = p.tmdb
       \/ (q.show = p.show /\ q.season = p.season /\ q.episode = p.episode)

\* C35: a history episode resolved like one that this run has queued before
\* is counted as a duplicate within the run and none of its plays is
\* queued; an episode that is queued has one pending entry appended per
\* watch timestamp.
C35_QueuedFromOneEpisodeOnly ==
    [][ResolvedStep =>
          IF QueuedBefore(last_processed')
          THEN /\ episodes' = episodes
               /\ skipped_within_run_duplicates' = skipped_within_run_duplicates + 1
          ELSE queued_log' # queued_log =>
                  episodes' = episodes \o QueuedPlays(parse_tmdb_id(last_processed'.tmdb),
                                                      last_processed'.plays)]_vars

====
